---- MODULE Spec2Model ----
(***************************************************************************)
(* SECS-II data and messaging subsystem of secsgem_simulator: the SML      *)
(* lexer (sml_parser.py), the item classes (secs_data*.py), the binary     *)
(* codec and the stream/function envelope (secs_data.py).                  *)
(*                                                                         *)
(* Text is a sequence of one-character strings, bytes are sequences of     *)
(* 0..255.  A raised Python exception is a result record whose kind is the *)
(* exception class.  TLC integers are 32 bits wide, so element values are  *)
(* modelled for the numeric classes whose bounds fit (I1, I2, U1, U2); the *)
(* wider classes share SECSDataNumber's code and appear in the registries. *)
(***************************************************************************)
EXTENDS Integers, Sequences, FiniteSets, TLC

VARIABLES
    text,       \* SML source handed to SECSFunction.from_sml
    parsed,     \* result of SECSFunction.from_sml(text)
    wire,       \* result of encode() on the current item
    decoded,    \* result of SECSData.decode(PacketData(wire))
    formatted,  \* repr() of the parsed SECSFunction
    reparsed,   \* result of SECSFunction.from_sml(formatted)
    host,       \* constructor call: class and host value
    built,      \* result of the constructor call
    hdrIn,      \* encode_item_header call: class and length
    hdrOut,     \* result of encode_item_header
    raw,        \* raw buffer handed to SECSData.decode
    argv,       \* argument list handed to CommandLine.parse
    cli,        \* result of CommandLine.parse(argv)
    lexed,      \* tokens and source lines of SMLParser(text)
    server,     \* the command server: where it stands, its connection, its message
    events,     \* what the command server did: accept, recv, send, close, return, raise
    arrived,    \* the packets the HSMS connection handed to on_connection_packet_received
    callback,   \* the packet on_connection_packet_received is about to append
    responses,  \* ScriptHSMSConnection01._responses
    waits       \* the wait_for_* call of each thread: where it stands, what it returned

vars == <<text, parsed, wire, decoded, formatted, reparsed, host, built, hdrIn, hdrOut, raw,
          argv, cli, lexed, server, events, arrived, callback, responses, waits>>

(***************************************************************************)
(* Bounds of the model.                                                    *)
(***************************************************************************)
MaxVals == 2        \* most value tokens / host list elements of a leaf
MaxChildren == 2    \* most children of a generated list
MaxHdrStep == 2     \* lengths tried on each side of a header-width boundary

(***************************************************************************)
(* Characters, digits and Python's int() / str() conversions.              *)
(***************************************************************************)
Digits == <<"0", "1", "2", "3", "4", "5", "6", "7", "8", "9">>
HexDigitsLower == Digits \o <<"a", "b", "c", "d", "e", "f">>
HexDigitsUpper == Digits \o <<"A", "B", "C", "D", "E", "F">>

IsDigitIn(c, table, base) == \E i \in 1..base : table[i] = c
DigitIn(c, table, base) == (CHOOSE i \in 1..base : table[i] = c) - 1

IsBaseDigit(c, base) == IsDigitIn(c, HexDigitsLower, base) \/ IsDigitIn(c, HexDigitsUpper, base)
BaseDigit(c, base) ==
    IF IsDigitIn(c, HexDigitsLower, base) THEN DigitIn(c, HexDigitsLower, base)
    ELSE DigitIn(c, HexDigitsUpper, base)

RECURSIVE DigitsValue(_, _, _)
DigitsValue(s, base, acc) ==
    IF s = <<>> THEN acc ELSE DigitsValue(Tail(s), base, acc * base + BaseDigit(Head(s), base))

AllBaseDigits(s, base) == s # <<>> /\ \A i \in 1..Len(s) : IsBaseDigit(s[i], base)

\* a returned value, or a raised exception with what its message says
Ok(val) == [kind |-> "ok", msg |-> "", val |-> val]
PyError(kind, msg) == [kind |-> kind, msg |-> msg, val |-> <<>>]

StripSign(s) == IF s # <<>> /\ s[1] \in {"+", "-"} THEN Tail(s) ELSE s
Signed(s, n) == IF s # <<>> /\ s[1] = "-" THEN 0 - n ELSE n

\* int(text): optional sign and decimal digits, ValueError otherwise
int(s) ==
    LET body == StripSign(s)
    IN  IF AllBaseDigits(body, 10) THEN Ok(Signed(s, DigitsValue(body, 10, 0)))
        ELSE PyError("ValueError", "invalid literal")

\* int(text, 0): as int() with the base taken from a 0x / 0o / 0b prefix;
\* a decimal literal with a leading zero is accepted only when it is zero
int0(s) ==
    LET body == StripSign(s)
        pre == IF Len(body) >= 2 /\ body[1] = "0" THEN body[2] ELSE ""
        base == CASE pre \in {"x", "X"} -> 16
                  [] pre \in {"o", "O"} -> 8
                  [] pre \in {"b", "B"} -> 2
                  [] OTHER -> 10
        digs == IF base = 10 THEN body ELSE SubSeq(body, 3, Len(body))
    IN  IF ~AllBaseDigits(digs, base) THEN PyError("ValueError", "invalid literal")
        ELSE IF base = 10 /\ Len(digs) > 1 /\ digs[1] = "0" /\ DigitsValue(digs, 10, 0) # 0
             THEN PyError("ValueError", "invalid literal")
        ELSE Ok(Signed(s, DigitsValue(digs, base, 0)))

RECURSIVE NatStr(_, _)
NatStr(n, base) ==
    IF n < base THEN <<HexDigitsLower[n + 1]>>
    ELSE NatStr(n \div base, base) \o <<HexDigitsLower[(n % base) + 1]>>

\* f"{value}" of an int
str(n) == IF n < 0 THEN <<"-">> \o NatStr(0 - n, 10) ELSE NatStr(n, 10)
\* hex(value) of a non-negative int
hex(n) == <<"0", "x">> \o NatStr(n, 16)

LowerOf == [c \in {"S", "F", "W", "L", "U", "I", "B", "J", "A"} |->
              CASE c = "S" -> "s" [] c = "F" -> "f" [] c = "W" -> "w" [] c = "L" -> "l"
                [] c = "U" -> "u" [] c = "I" -> "i" [] c = "B" -> "b" [] c = "J" -> "j"
                [] c = "A" -> "a"]
lower_char(c) == IF c \in DOMAIN LowerOf THEN LowerOf[c] ELSE c
upper_char(c) == IF \E u \in DOMAIN LowerOf : LowerOf[u] = c
                 THEN CHOOSE u \in DOMAIN LowerOf : LowerOf[u] = c ELSE c
lower(s) == [i \in 1..Len(s) |-> lower_char(s[i])]
upper(s) == [i \in 1..Len(s) |-> upper_char(s[i])]

\* the characters of the model's string literals and their Latin-1 / ASCII codes
CharCodes == [c \in {"o", "k", "a", " ", "<", "."} |->
                CASE c = "o" -> 111 [] c = "k" -> 107 [] c = "a" -> 97
                  [] c = " " -> 32 [] c = "<" -> 60 [] c = "." -> 46]
\* str.encode("latin1") / str.encode("ascii") on those characters
encode_chars(s) == [i \in 1..Len(s) |-> CharCodes[s[i]]]
\* bytes in string.printable without \n and \r, and chr() of them
IsPrintable(b) == b \in (32..126) \cup {9, 11, 12}
chr(b) == CHOOSE c \in DOMAIN CharCodes : CharCodes[c] = b

(***************************************************************************)
(* sml_parser.py: tokens and the lexer.                                    *)
(***************************************************************************)
whitespaces == {" ", "\t", "\n", "\r"}
operators == {"<", ">", "[", "]"}
literal_delimiter == {"'", "\""}

SMLToken(value, line, col) == [value |-> value, line |-> line, col |-> col]
NoToken == SMLToken(<<>>, 0, 0)

\* _SMLParserLocation: -1 is "uninitialized"
_SMLParserLocation == [line |-> -1, column |-> -1]
_SMLParserLocation_line(loc) == loc.line
_SMLParserLocation_column(loc) == loc.line
_SMLParserLocation_update(loc, line, col) ==
    [line |-> IF loc.line = -1 THEN line ELSE loc.line,
     column |-> IF loc.column = -1 THEN col ELSE loc.column]

\* SMLParser.__init__: the lexer state before parse_all
SMLParser_init ==
    [i |-> 1, line |-> 1, col |-> 1, source_lines |-> << <<>> >>, tokens |-> <<>>,
     current_token |-> <<>>, location |-> _SMLParserLocation, current_delimiter |-> ""]

\* SMLParser._get_char on the character read ("" at end of input)
_get_char(s, char) ==
    [s EXCEPT !.i = @ + 1,
              !.line = IF char = "\n" THEN @ + 1 ELSE @,
              !.col = IF char \in {"\n", "\r"} THEN 0 ELSE @ + 1,
              !.source_lines = IF char = "\n" THEN Append(@, <<>>)
                               ELSE IF char \in {"\r", ""} THEN @
                               ELSE [@ EXCEPT ![Len(@)] = Append(@, char)]]

\* tokens.append(SMLToken(current_token, location.line, location.column, self))
EmitCurrent(s, tok) ==
    Append(s.tokens, SMLToken(tok, _SMLParserLocation_line(s.location),
                                   _SMLParserLocation_column(s.location)))

\* SMLParser.parse_all: one iteration of `while True` on a character of the
\* source, from reading it to the `continue`
parse_char(source, s0) ==
    LET char == source[s0.i]
        g == _get_char(s0, char)
        s == [g EXCEPT !.location = _SMLParserLocation_update(@, g.line, g.col)]
    IN  IF s.current_delimiter # "" THEN
            IF char = s.current_delimiter
            THEN [s EXCEPT !.tokens = EmitCurrent(s, Append(s.current_token, char)),
                           !.current_token = <<>>,
                           !.location = _SMLParserLocation,
                           !.current_delimiter = ""]
            ELSE [s EXCEPT !.current_token = Append(@, char)]
        ELSE IF char \in whitespaces THEN
            [s EXCEPT !.tokens = IF s.current_token # <<>>
                                 THEN EmitCurrent(s, s.current_token) ELSE @,
                      !.current_token = <<>>,
                      !.location = _SMLParserLocation]
        ELSE IF char \in operators THEN
            LET flushed == IF s.current_token # <<>> THEN EmitCurrent(s, s.current_token)
                           ELSE s.tokens
            IN  [s EXCEPT !.tokens = Append(flushed, SMLToken(<<char>>, s.line, s.col)),
                          !.current_token = <<>>,
                          !.location = _SMLParserLocation]
        ELSE [s EXCEPT !.current_token = Append(@, char),
                       !.current_delimiter = IF char \in literal_delimiter THEN char ELSE @]

\* n iterations of the loop: the first half of them, then the rest from the
\* state `half` the first half has left
RECURSIVE parse_chars(_, _, _)
parse_chars(source, s, n) ==
    IF n = 0 THEN s
    ELSE IF n = 1 THEN parse_char(source, s)
    ELSE CHOOSE end \in {parse_chars(source, half, n - (n \div 2)) :
                            half \in {parse_chars(source, s, n \div 2)}} : TRUE

\* SMLParser.parse_all: an iteration per character, then the one that reads
\* '' at the end of the input and returns
parse_all(source, s0) ==
    LET AtEnd(s) == [tokens |-> _get_char(s, "").tokens,
                     source_lines |-> _get_char(s, "").source_lines]
    IN  AtEnd(parse_chars(source, s0, Len(source)))

\* SMLParser(source): the token list and the captured source lines
SMLParser(source) == parse_all(source, SMLParser_init)

\* SMLToken.get_error: the offending source line, then `prefix^-- message`
\* with a prefix of col - 1 spaces, which puts the caret in column col
NoError == [source_line |-> <<>>, caret_column |-> 0, message |-> ""]
get_error(parser, token, msg) ==
    [source_line |-> parser.source_lines[(token.line - 1) + 1],
     caret_column |-> (token.col - 1) + 1,
     message |-> msg]

\* SMLToken.exception: SMLParseError carrying the token and the rendering
SMLParseError(parser, token, msg) ==
    [kind |-> "SMLParseError", token |-> token, msg |-> msg,
     error |-> get_error(parser, token, msg), val |-> <<>>, pos |-> 0]

\* any other exception raised while parsing
Raised(kind) ==
    [kind |-> kind, token |-> NoToken, msg |-> "", error |-> NoError, val |-> <<>>, pos |-> 0]
\* a normal return: the value and the parser's token counter
Returned(val, pos) ==
    [kind |-> "ok", token |-> NoToken, msg |-> "", error |-> NoError, val |-> val, pos |-> pos]

\* SMLParser.get_token / peek_token index _tokens; past the end is IndexError
HasToken(parser, pos) == pos + 1 <= Len(parser.tokens)
peek_token(parser, pos) == parser.tokens[pos + 1]

(***************************************************************************)
(* secs_data*.py: the item classes and their class attributes.             *)
(***************************************************************************)
NumberClasses == {"I8", "I1", "I2", "I4", "F8", "F4", "U8", "U1", "U2", "U4"}
ItemClasses == {"L", "B", "BOOLEAN", "A", "J"} \cup NumberClasses
\* every class that ran SECSData.__init_subclass__ with a non-None _sml_type:
\* the abstract SECSDataNumber inherits "" and -1 and is registered as well
RegisteredClasses == ItemClasses \cup {"SECSDataNumber"}
\* the numeric classes whose element values the model computes with
ValueClasses == {"I1", "I2", "U1", "U2"}

_sml_type(cls) ==
    CASE cls = "L" -> <<"L">>
      [] cls = "B" -> <<"B">>
      [] cls = "BOOLEAN" -> <<"B", "O", "O", "L", "E", "A", "N">>
      [] cls = "A" -> <<"A">>
      [] cls = "J" -> <<"J">>
      [] cls = "I8" -> <<"I", "8">>
      [] cls = "I1" -> <<"I", "1">>
      [] cls = "I2" -> <<"I", "2">>
      [] cls = "I4" -> <<"I", "4">>
      [] cls = "F8" -> <<"F", "8">>
      [] cls = "F4" -> <<"F", "4">>
      [] cls = "U8" -> <<"U", "8">>
      [] cls = "U1" -> <<"U", "1">>
      [] cls = "U2" -> <<"U", "2">>
      [] cls = "U4" -> <<"U", "4">>
      [] cls = "SECSDataNumber" -> <<>>

\* the octal format codes 0o00 .. 0o54 of the classes, in decimal
_hsms_type(cls) ==
    CASE cls = "L" -> 0
      [] cls = "B" -> 8
      [] cls = "BOOLEAN" -> 9
      [] cls = "A" -> 16
      [] cls = "J" -> 17
      [] cls = "I8" -> 24
      [] cls = "I1" -> 25
      [] cls = "I2" -> 26
      [] cls = "I4" -> 28
      [] cls = "F8" -> 32
      [] cls = "F4" -> 36
      [] cls = "U8" -> 40
      [] cls = "U1" -> 41
      [] cls = "U2" -> 42
      [] cls = "U4" -> 44
      [] cls = "SECSDataNumber" -> -1

_bytes(cls) ==
    CASE cls \in {"I1", "U1"} -> 1
      [] cls \in {"I2", "U2"} -> 2
      [] cls \in {"I4", "U4", "F4"} -> 4
      [] cls \in {"I8", "U8", "F8"} -> 8

\* struct codes b, h are signed, B, H unsigned
StructSigned(cls) == cls \in {"I1", "I2"}

_minimum_value(cls) ==
    CASE cls = "I1" -> -128
      [] cls = "I2" -> -32768
      [] cls \in {"U1", "U2", "B", "BOOLEAN", "A", "J"} -> 0

_maximum_value(cls) ==
    CASE cls = "I1" -> 127
      [] cls = "I2" -> 32767
      [] cls \in {"U1", "B", "A", "J"} -> 255
      [] cls = "U2" -> 65535
      [] cls = "BOOLEAN" -> 1

\* SECSData.__init_subclass__: the two registries, keyed by tag and by code
subclasses_by_sml == {upper(_sml_type(c)) : c \in RegisteredClasses}
subclasses_by_hsms == {_hsms_type(c) : c \in RegisteredClasses}
ClassBySml(tag) == CHOOSE c \in RegisteredClasses : upper(_sml_type(c)) = tag
ClassByHsms(code) == CHOOSE c \in RegisteredClasses : _hsms_type(c) = code

(***************************************************************************)
(* Items and construction.  An item is its class, the Python type of its   *)
(* _value and the value's elements; a host value is its Python type, the   *)
(* type of its elements and the elements (a scalar is one element).        *)
(***************************************************************************)
Item(cls, py, v) == [t |-> cls, py |-> py, v |-> v]
NoItem == Item("None", "none", <<>>)
HostValue(py, of, x) == [py |-> py, of |-> of, x |-> x]

\* SECSData._verify_value_in_bounds without a token: ValueError
_verify_value_in_bounds(cls, value) ==
    IF _minimum_value(cls) <= value /\ value <= _maximum_value(cls) THEN Ok(value)
    ELSE PyError("ValueError", "out of bounds")

\* SECSDataNumber.validate_value: the `return values` sits inside the loop
SECSDataNumber_validate_value(cls, value) ==
    IF value.py = "list" /\ value.x # <<>> THEN
        IF value.of = "int"
        THEN LET first == _verify_value_in_bounds(cls, value.x[1])
             IN  IF first.kind = "ok" THEN Ok(<<first.val>>) ELSE first
        ELSE PyError("Exception", "invalid value")
    ELSE IF value.py = "int" THEN
        LET one == _verify_value_in_bounds(cls, value.x[1])
        IN  IF one.kind = "ok" THEN Ok(<<one.val>>) ELSE one
    ELSE PyError("Exception", "invalid value")

\* bytes(n): a zero-filled buffer of length n
bytes_of_int(n) == [i \in 1..n |-> 0]

RECURSIVE SECSDataB_validate_list_value(_, _)
SECSDataB_validate_list_value(value, acc) ==
    IF value.x = <<>> THEN Ok(acc)
    ELSE IF value.of = "int" THEN
        LET one == _verify_value_in_bounds("B", value.x[1])
        IN  IF one.kind # "ok" THEN one
            ELSE SECSDataB_validate_list_value([value EXCEPT !.x = Tail(@)],
                                               acc \o bytes_of_int(one.val))
    ELSE IF value.of = "bytes" THEN
        SECSDataB_validate_list_value([value EXCEPT !.x = Tail(@)], acc \o value.x[1])
    ELSE PyError("Exception", "invalid value")

SECSDataB_validate_value(value) ==
    IF value.py = "list" THEN SECSDataB_validate_list_value(value, <<>>)
    ELSE IF value.py = "int" THEN
        LET one == _verify_value_in_bounds("B", value.x[1])
        IN  IF one.kind = "ok" THEN Ok(bytes_of_int(one.val)) ELSE one
    ELSE IF value.py = "bytes" THEN Ok(value.x)
    ELSE PyError("Exception", "invalid value")

\* a bool is an int to isinstance: True is 1, False is 0
IntOfBool(b) == IF b THEN 1 ELSE 0

RECURSIVE SECSDataBOOLEAN_validate_list_value(_, _)
SECSDataBOOLEAN_validate_list_value(value, acc) ==
    IF value.x = <<>> THEN Ok(acc)
    ELSE IF value.of \in {"int", "bool"} THEN
        LET n == IF value.of = "bool" THEN IntOfBool(value.x[1]) ELSE value.x[1]
            one == _verify_value_in_bounds("BOOLEAN", n)
        IN  IF one.kind # "ok" THEN one
            ELSE SECSDataBOOLEAN_validate_list_value([value EXCEPT !.x = Tail(@)],
                                                     Append(acc, one.val = 1))
    ELSE PyError("Exception", "invalid value")

SECSDataBOOLEAN_validate_value(value) ==
    IF value.py = "list" THEN SECSDataBOOLEAN_validate_list_value(value, <<>>)
    ELSE IF value.py \in {"int", "bool"} THEN
        SECSDataBOOLEAN_validate_list_value([value EXCEPT !.of = value.py], <<>>)
    ELSE PyError("Exception", "invalid value")

\* SECSDataJ.validate_value: a str or a bytes value is kept as it is
SECSDataJ_validate_value(value) ==
    IF value.py \in {"str", "bytes"} THEN Ok(value.x) ELSE PyError("Exception", "invalid value")

SECSDataL_validate_value(value) ==
    IF value.py = "list" THEN Ok(value.x) ELSE PyError("Exception", "invalid value")

\* SECSDataStr is not among the sources; by the data model an A item is built
\* from bytes, or from a string encoded as Latin-1
SECSDataStr_validate_value(value) ==
    IF value.py = "bytes" THEN Ok(value.x)
    ELSE IF value.py = "str" THEN Ok(encode_chars(value.x))
    ELSE PyError("Exception", "invalid value")

\* the Python type of _value after validate_value
ValuePy(cls, value) ==
    CASE cls = "B" -> "bytes"
      [] cls = "A" -> "bytes"
      [] cls = "J" -> value.py
      [] OTHER -> "list"

\* SECSData.__init__: cls(value) is the item holding validate_value(value)
SECSData_init(cls, value) ==
    LET Hold(v) == IF v.kind = "ok" THEN Ok(Item(cls, ValuePy(cls, value), v.val)) ELSE v
    IN  Hold(CASE cls = "L" -> SECSDataL_validate_value(value)
               [] cls = "B" -> SECSDataB_validate_value(value)
               [] cls = "BOOLEAN" -> SECSDataBOOLEAN_validate_value(value)
               [] cls = "J" -> SECSDataJ_validate_value(value)
               [] cls = "A" -> SECSDataStr_validate_value(value)
               [] OTHER -> SECSDataNumber_validate_value(cls, value))

(***************************************************************************)
(* Binary codec: encode.                                                   *)
(***************************************************************************)
\* a byte buffer or a raised exception
Bytes(b) == [kind |-> "ok", bytes |-> b]
EncodeError(kind) == [kind |-> kind, bytes |-> <<>>]

\* encode_item_header with the width comparisons written >= instead of >
encode_item_header_ge(cls, length) ==
    IF length < 0 THEN EncodeError("ValueError")
    ELSE IF length > 16777215 THEN EncodeError("ValueError")
    ELSE IF length >= 65535 THEN
        Bytes(<<_hsms_type(cls) * 4 + 3, (length \div 65536) % 256,
                (length \div 256) % 256, length % 256>>)
    ELSE IF length >= 255 THEN
        Bytes(<<_hsms_type(cls) * 4 + 2, (length \div 256) % 256, length % 256>>)
    ELSE Bytes(<<_hsms_type(cls) * 4 + 1, length % 256>>)

\* SECSData.encode_item_header
encode_item_header(cls, length) ==
    IF length < 0 THEN EncodeError("ValueError")
    ELSE IF length > 16777215 THEN EncodeError("ValueError")
    ELSE IF length > 65535 THEN
        Bytes(<<_hsms_type(cls) * 4 + 3, (length \div 65536) % 256,
                (length \div 256) % 256, length % 256>>)
    ELSE IF length > 255 THEN
        Bytes(<<_hsms_type(cls) * 4 + 2, (length \div 256) % 256, length % 256>>)
    ELSE Bytes(<<_hsms_type(cls) * 4 + 1, length % 256>>)

\* struct.pack(">b|B|h|H", value): big-endian two's complement in _bytes bytes
RECURSIVE BigEndian(_, _)
BigEndian(u, n) == IF n = 0 THEN <<>> ELSE Append(BigEndian(u \div 256, n - 1), u % 256)
RECURSIVE Pow256(_)
Pow256(n) == IF n = 0 THEN 1 ELSE 256 * Pow256(n - 1)
struct_pack(cls, value) ==
    BigEndian(IF value < 0 THEN value + Pow256(_bytes(cls)) ELSE value, _bytes(cls))

RECURSIVE FromBigEndian(_, _)
FromBigEndian(b, acc) == IF b = <<>> THEN acc ELSE FromBigEndian(Tail(b), acc * 256 + Head(b))
struct_unpack(cls, b) ==
    LET u == FromBigEndian(b, 0)
    IN  IF StructSigned(cls) /\ u >= Pow256(_bytes(cls)) \div 2 THEN u - Pow256(_bytes(cls)) ELSE u

RECURSIVE PackAll(_, _)
PackAll(cls, values) ==
    IF values = <<>> THEN <<>> ELSE struct_pack(cls, Head(values)) \o PackAll(cls, Tail(values))

SECSDataNumber_encode(item) ==
    LET header == encode_item_header(item.t, Len(item.v) * _bytes(item.t))
    IN  IF header.kind # "ok" THEN header ELSE Bytes(header.bytes \o PackAll(item.t, item.v))

SECSDataB_encode(item) ==
    LET header == encode_item_header(item.t, Len(item.v))
    IN  IF header.kind # "ok" THEN header ELSE Bytes(header.bytes \o item.v)

SECSDataBOOLEAN_encode(item) ==
    LET header == encode_item_header(item.t, Len(item.v))
    IN  IF header.kind # "ok" THEN header
        ELSE Bytes(header.bytes \o [i \in 1..Len(item.v) |-> IF item.v[i] THEN 1 ELSE 0])

\* SECSDataJ.encode: `result += self._value` with a str value is a TypeError
SECSDataJ_encode(item) ==
    LET header == encode_item_header(item.t, Len(item.v))
    IN  IF header.kind # "ok" THEN header
        ELSE IF item.py = "str" THEN EncodeError("TypeError")
        ELSE Bytes(header.bytes \o item.v)

\* SECSDataStr is not among the sources; by the codec's encode rules an A
\* item is its header with the byte count, then the raw bytes
SECSDataStr_encode(item) ==
    LET header == encode_item_header(item.t, Len(item.v))
    IN  IF header.kind # "ok" THEN header ELSE Bytes(header.bytes \o item.v)

RECURSIVE encode(_)
RECURSIVE SECSDataL_encode_items(_, _)
\* the loop of SECSDataL.encode: result += item.encode()
SECSDataL_encode_items(items, result) ==
    LET Add(child) == IF child.kind # "ok" THEN child
                      ELSE SECSDataL_encode_items(Tail(items), result \o child.bytes)
    IN  IF items = <<>> THEN Bytes(result) ELSE Add(encode(Head(items)))

\* the same with the number of bytes of the children as the header's length
SECSDataL_encode_bytecount(item) ==
    LET Prefix(body) ==
            IF body.kind # "ok" THEN body
            ELSE IF encode_item_header(item.t, Len(body.bytes)).kind # "ok"
                 THEN encode_item_header(item.t, Len(body.bytes))
            ELSE Bytes(encode_item_header(item.t, Len(body.bytes)).bytes \o body.bytes)
    IN  Prefix(SECSDataL_encode_items(item.v, <<>>))

SECSDataL_encode(item) ==
    LET header == encode_item_header(item.t, Len(item.v))
    IN  IF header.kind # "ok" THEN header ELSE SECSDataL_encode_items(item.v, header.bytes)

\* item.encode(), dispatched on the item's class
encode(item) ==
    CASE item.t = "L" -> SECSDataL_encode(item)
      [] item.t = "B" -> SECSDataB_encode(item)
      [] item.t = "BOOLEAN" -> SECSDataBOOLEAN_encode(item)
      [] item.t = "J" -> SECSDataJ_encode(item)
      [] item.t = "A" -> SECSDataStr_encode(item)
      [] OTHER -> SECSDataNumber_encode(item)

(***************************************************************************)
(* Binary codec: decode over a PacketData cursor.  A result is the item or *)
(* the exception, and the cursor's remaining _data.                        *)
(***************************************************************************)
Decoded(item, data) == [kind |-> "ok", msg |-> "", val |-> item, data |-> data]
DecodeError(kind, msg, data) == [kind |-> kind, msg |-> msg, val |-> NoItem, data |-> data]

\* PacketData.get: slicing never fails, it returns what is left
PacketData_get(data, length) ==
    [result |-> SubSeq(data, 1, IF length < Len(data) THEN length ELSE Len(data)),
     data |-> SubSeq(data, length + 1, Len(data))]

\* _decode_peek_item_type with the mask applied but the shift forgotten
_decode_peek_item_type_unshifted(data) == (data[1] \div 4) * 4

\* SECSData._decode_peek_item_type
_decode_peek_item_type(data) == data[1] \div 4

\* SECSData._decode_item_header: get_one() on an empty buffer is IndexError
RECURSIVE ReadLength(_, _, _)
ReadLength(data, length_bytes, length) ==
    IF length_bytes = 0 THEN [kind |-> "ok", length |-> length, data |-> data]
    ELSE IF data = <<>> THEN [kind |-> "IndexError", length |-> 0, data |-> data]
    ELSE ReadLength(Tail(data), length_bytes - 1, length * 256 + Head(data))

_decode_item_header(data) ==
    IF data = <<>> THEN [kind |-> "IndexError", length |-> 0, data |-> data]
    ELSE ReadLength(Tail(data), Head(data) % 4, 0)

\* the loop of SECSDataNumber.decode
RECURSIVE SECSDataNumber_decode_loop(_, _, _, _)
SECSDataNumber_decode_loop(cls, data, n, result) ==
    IF n = 0 THEN [kind |-> "ok", result |-> result, data |-> data]
    ELSE LET got == PacketData_get(data, _bytes(cls))
         IN  IF Len(got.result) # _bytes(cls)
             THEN [kind |-> "ValueError", result |-> <<>>, data |-> got.data]
             ELSE SECSDataNumber_decode_loop(cls, got.data, n - 1,
                                             Append(result, struct_unpack(cls, got.result)))

\* cls(value) at the end of a decode
DecodeBuild(cls, value, data) ==
    LET Result(made) == IF made.kind = "ok" THEN Decoded(made.val, data)
                        ELSE DecodeError(made.kind, made.msg, data)
    IN  Result(SECSData_init(cls, value))

SECSDataNumber_decode(cls, data) ==
    LET Build(loop) ==
            IF loop.kind # "ok" THEN DecodeError(loop.kind, "not enough data", loop.data)
            ELSE DecodeBuild(cls, HostValue("list", "int", loop.result), loop.data)
        Body(header) ==
            IF header.kind # "ok" THEN DecodeError(header.kind, "index out of range", header.data)
            ELSE Build(SECSDataNumber_decode_loop(cls, header.data,
                                                  header.length \div _bytes(cls), <<>>))
    IN  Body(_decode_item_header(data))

SECSDataB_decode(data) ==
    LET header == _decode_item_header(data)
        got == PacketData_get(header.data, header.length)
    IN  IF header.kind # "ok" THEN DecodeError(header.kind, "index out of range", header.data)
        ELSE DecodeBuild("B", HostValue("list", "bytes", <<got.result>>), got.data)

SECSDataBOOLEAN_decode(data) ==
    LET header == _decode_item_header(data)
        got == PacketData_get(header.data, header.length)
    IN  IF header.kind # "ok" THEN DecodeError(header.kind, "index out of range", header.data)
        ELSE DecodeBuild("BOOLEAN", HostValue("list", "bool",
                                              [i \in 1..Len(got.result) |-> got.result[i] > 0]),
                         got.data)

SECSDataJ_decode(data) ==
    LET header == _decode_item_header(data)
        got == PacketData_get(header.data, header.length)
    IN  IF header.kind # "ok" THEN DecodeError(header.kind, "index out of range", header.data)
        ELSE DecodeBuild("J", HostValue("bytes", "int", got.result), got.data)

\* SECSDataStr is not among the sources; by the codec's decode rules the
\* payload is the literal bytes and a length beyond the buffer is a
\* truncated-payload error
SECSDataStr_decode(data) ==
    LET header == _decode_item_header(data)
        got == PacketData_get(header.data, header.length)
    IN  IF header.kind # "ok" THEN DecodeError(header.kind, "index out of range", header.data)
        ELSE IF Len(got.result) # header.length THEN DecodeError("ValueError", "not enough data", got.data)
        ELSE DecodeBuild("A", HostValue("bytes", "int", got.result), got.data)

RECURSIVE decode(_)
RECURSIVE SECSDataL_decode_loop(_, _, _)
\* the loop of SECSDataL.decode: items.append(SECSData.decode(data))
SECSDataL_decode_loop(data, n, items) ==
    LET Add(child) == IF child.kind # "ok" THEN child
                      ELSE SECSDataL_decode_loop(child.data, n - 1, Append(items, child.val))
    IN  IF n = 0 THEN DecodeBuild("L", HostValue("list", "SECSData", items), data)
        ELSE Add(decode(data))

SECSDataL_decode(data) ==
    LET Body(header) ==
            IF header.kind # "ok" THEN DecodeError(header.kind, "index out of range", header.data)
            ELSE SECSDataL_decode_loop(header.data, header.length, <<>>)
    IN  Body(_decode_item_header(data))

\* SECSData.decode: peek the format code and dispatch on the registry
decode(data) ==
    IF data = <<>> THEN DecodeError("IndexError", "index out of range", data)
    ELSE IF _decode_peek_item_type(data) \notin subclasses_by_hsms
         THEN DecodeError("Exception", "unknown data type", data)
    ELSE LET Dispatch(cls) ==
                 CASE cls = "L" -> SECSDataL_decode(data)
                   [] cls = "B" -> SECSDataB_decode(data)
                   [] cls = "BOOLEAN" -> SECSDataBOOLEAN_decode(data)
                   [] cls = "J" -> SECSDataJ_decode(data)
                   [] cls = "A" -> SECSDataStr_decode(data)
                   [] OTHER -> SECSDataNumber_decode(cls, data)
         IN  Dispatch(ClassByHsms(_decode_peek_item_type(data)))

(***************************************************************************)
(* SML parser: SECSData.from_sml_tokens and the classes' _read_sml_token.  *)
(* pos is the number of tokens consumed (_token_counter + 1).              *)
(***************************************************************************)
\* SECSData._verify_value_in_bounds with the token: SMLParseError at it
_verify_value_in_bounds_item(cls, value, parser, item) ==
    IF _minimum_value(cls) <= value /\ value <= _maximum_value(cls) THEN Returned(value, 0)
    ELSE SMLParseError(parser, item, "out of bounds")

\* a value token of B, BOOLEAN, J or A: int(item.value, 0), then the bounds
ReadByteToken(cls, parser, item) ==
    LET Check(value) == IF value.kind # "ok" THEN Raised(value.kind)
                        ELSE _verify_value_in_bounds_item(cls, value.val, parser, item)
    IN  Check(int0(item.value))

\* SECSDataNumber._read_sml_token
RECURSIVE SECSDataNumber_read_sml_token(_, _, _, _)
SECSDataNumber_read_sml_token(cls, parser, pos, data) ==
    LET Add(checked) ==
            IF checked.kind # "ok" THEN checked
            ELSE SECSDataNumber_read_sml_token(cls, parser, pos + 1, Append(data, checked.val))
        Check(item, value) ==
            IF value.kind # "ok" THEN Raised(value.kind)
            ELSE _verify_value_in_bounds_item(cls, value.val, parser, item)
    IN  IF ~HasToken(parser, pos) THEN Raised("IndexError")
        ELSE IF peek_token(parser, pos).value # <<">">>
             THEN Add(Check(peek_token(parser, pos), int(peek_token(parser, pos).value)))
        ELSE Returned(HostValue("list", "int", data), pos + 1)

\* SECSDataB._read_sml_token
RECURSIVE SECSDataB_read_sml_token(_, _, _)
SECSDataB_read_sml_token(parser, pos, data) ==
    LET Add(checked) ==
            IF checked.kind # "ok" THEN checked
            ELSE SECSDataB_read_sml_token(parser, pos + 1, Append(data, checked.val))
    IN  IF ~HasToken(parser, pos) THEN Raised("IndexError")
        ELSE IF peek_token(parser, pos).value # <<">">>
             THEN Add(ReadByteToken("B", parser, peek_token(parser, pos)))
        ELSE Returned(HostValue("bytes", "int", data), pos + 1)

\* SECSDataBOOLEAN._read_sml_token
RECURSIVE SECSDataBOOLEAN_read_sml_token(_, _, _)
SECSDataBOOLEAN_read_sml_token(parser, pos, data) ==
    LET Add(checked) ==
            IF checked.kind # "ok" THEN checked
            ELSE SECSDataBOOLEAN_read_sml_token(parser, pos + 1, Append(data, checked.val = 1))
    IN  IF ~HasToken(parser, pos) THEN Raised("IndexError")
        ELSE IF peek_token(parser, pos).value # <<">">>
             THEN Add(ReadByteToken("BOOLEAN", parser, peek_token(parser, pos)))
        ELSE Returned(HostValue("list", "bool", data), pos + 1)

\* str.strip('"'): drop every leading and trailing double quote
RECURSIVE strip_quotes(_)
strip_quotes(s) ==
    IF s # <<>> /\ s[1] = "\"" THEN strip_quotes(Tail(s))
    ELSE IF s # <<>> /\ s[Len(s)] = "\"" THEN strip_quotes(SubSeq(s, 1, Len(s) - 1))
    ELSE s

\* SECSDataJ._read_sml_token
RECURSIVE SECSDataJ_read_sml_token(_, _, _)
SECSDataJ_read_sml_token(parser, pos, data) ==
    LET One(checked) ==
            IF checked.kind # "ok" THEN checked ELSE Returned(<<checked.val>>, 0)
        Add(read) ==
            IF read.kind # "ok" THEN read
            ELSE SECSDataJ_read_sml_token(parser, pos + 1, data \o read.val)
        Read(item) ==
            IF item.value[1] = "\"" THEN Returned(encode_chars(strip_quotes(item.value)), 0)
            ELSE One(ReadByteToken("J", parser, item))
    IN  IF ~HasToken(parser, pos) THEN Raised("IndexError")
        ELSE IF peek_token(parser, pos).value # <<">">>
             THEN Add(Read(peek_token(parser, pos)))
        ELSE Returned(HostValue("bytes", "int", data), pos + 1)

\* SECSDataStr is not among the sources; by the parser's body rule for A a
\* token that starts with a quote contributes its inner text as Latin-1
\* bytes and any other token is an integer byte, bounds-checked
RECURSIVE SECSDataStr_read_sml_token(_, _, _)
SECSDataStr_read_sml_token(parser, pos, data) ==
    LET One(checked) ==
            IF checked.kind # "ok" THEN checked ELSE Returned(<<checked.val>>, 0)
        Add(read) ==
            IF read.kind # "ok" THEN read
            ELSE SECSDataStr_read_sml_token(parser, pos + 1, data \o read.val)
        Read(item) ==
            IF item.value[1] \in literal_delimiter
            THEN Returned(encode_chars(SubSeq(item.value, 2, Len(item.value) - 1)), 0)
            ELSE One(ReadByteToken("A", parser, item))
    IN  IF ~HasToken(parser, pos) THEN Raised("IndexError")
        ELSE IF peek_token(parser, pos).value # <<">">>
             THEN Add(Read(peek_token(parser, pos)))
        ELSE Returned(HostValue("bytes", "int", data), pos + 1)

\* SECSData._read_length: the count token, then the closing ']'
_read_length(parser, pos) ==
    IF ~HasToken(parser, pos) \/ ~HasToken(parser, pos + 1) THEN Raised("IndexError")
    ELSE IF peek_token(parser, pos + 1).value # <<"]">>
         THEN SMLParseError(parser, peek_token(parser, pos + 1), "expected length close")
    ELSE Returned(peek_token(parser, pos), pos + 2)

\* cls(value) at the end of from_sml_tokens
ParseBuild(cls, value, pos) ==
    LET Result(made) == IF made.kind = "ok" THEN Returned(made.val, pos) ELSE Raised(made.kind)
    IN  Result(SECSData_init(cls, value))

\* the same check without `0 <`: a count of 0 has to match as well
CheckCount_nonzero(parser, length, items, pos) ==
    LET Compare(counted) ==
            IF counted.kind # "ok" THEN Raised(counted.kind)
            ELSE IF counted.val # Len(items)
                 THEN SMLParseError(parser, length, "length mismatch")
            ELSE Returned(items, pos + 1)
    IN  IF length = NoToken THEN Returned(items, pos + 1) ELSE Compare(int(length.value))

\* the check after the loop of SECSData._read_items:
\* length is not None and 0 < int(length.value) != count
CheckCount(parser, length, items, pos) ==
    LET Compare(counted) ==
            IF counted.kind # "ok" THEN Raised(counted.kind)
            ELSE IF 0 < counted.val /\ counted.val # Len(items)
                 THEN SMLParseError(parser, length, "length mismatch")
            ELSE Returned(items, pos + 1)
    IN  IF length = NoToken THEN Returned(items, pos + 1) ELSE Compare(int(length.value))

RECURSIVE _read_item(_, _)
RECURSIVE _read_items_loop(_, _, _, _)
\* the `while` loop of SECSData._read_items and what follows it
_read_items_loop(parser, pos, length, items) ==
    LET Add(sub) == IF sub.kind # "ok" THEN sub
                    ELSE _read_items_loop(parser, sub.pos, length, Append(items, sub.val))
    IN  IF ~HasToken(parser, pos) THEN Raised("IndexError")
        ELSE IF peek_token(parser, pos).value \notin {<<">">>, <<".">>}
             THEN Add(_read_item(parser, pos))
        ELSE CheckCount(parser, length, items, pos)

\* SECSData._read_items: the optional `[N]`, then the children
_read_items(parser, pos) ==
    LET Loop(length) == IF length.kind # "ok" THEN length
                        ELSE _read_items_loop(parser, length.pos, length.val, <<>>)
    IN  IF ~HasToken(parser, pos) THEN Raised("IndexError")
        ELSE IF peek_token(parser, pos).value = <<"[">> THEN Loop(_read_length(parser, pos + 1))
        ELSE Loop(Returned(NoToken, pos))

\* SECSData.from_sml_tokens of a concrete class, after the tag was read:
\* cls(cls._read_items(parser, ...)) for L, cls(cls._read_sml_token(parser)) otherwise
from_sml_tokens(cls, parser, pos) ==
    LET Build(read) ==
            IF read.kind # "ok" THEN read
            ELSE ParseBuild(cls, IF cls = "L" THEN HostValue("list", "SECSData", read.val)
                                 ELSE read.val, read.pos)
    IN  Build(CASE cls = "L" -> _read_items(parser, pos)
                [] cls = "B" -> SECSDataB_read_sml_token(parser, pos, <<>>)
                [] cls = "BOOLEAN" -> SECSDataBOOLEAN_read_sml_token(parser, pos, <<>>)
                [] cls = "J" -> SECSDataJ_read_sml_token(parser, pos, <<>>)
                [] cls = "A" -> SECSDataStr_read_sml_token(parser, pos, <<>>)
                [] OTHER -> SECSDataNumber_read_sml_token(cls, parser, pos, <<>>))

\* SECSData._read_item: '<', the tag, then the class's from_sml_tokens
_read_item(parser, pos) ==
    LET Dispatch(data_type, tag) ==
            IF tag \notin subclasses_by_sml
            THEN SMLParseError(parser, data_type, "unknown data type")
            ELSE from_sml_tokens(ClassBySml(tag), parser, pos + 2)
    IN  IF ~HasToken(parser, pos) THEN Raised("IndexError")
        ELSE IF peek_token(parser, pos).value # <<"<">>
             THEN SMLParseError(parser, peek_token(parser, pos), "expected open character")
        ELSE IF ~HasToken(parser, pos + 1) THEN Raised("IndexError")
        ELSE Dispatch(peek_token(parser, pos + 1), upper(peek_token(parser, pos + 1).value))

(***************************************************************************)
(* The stream/function envelope: SECSFunction.                             *)
(***************************************************************************)
SECSFunction(stream, function, w_bit, data) ==
    [stream |-> stream, function |-> function, w_bit |-> w_bit, data |-> data]

\* stream_function_regex ^[sS](\d*)[fF](\d*)$ : the match and its two groups
stream_function_match(value) ==
    LET fs == {i \in 2..Len(value) : value[i] \in {"f", "F"}}
        f == IF fs = {} THEN 0 ELSE CHOOSE i \in fs : \A j \in fs : i <= j
        all_digits(seq) == \A i \in 1..Len(seq) : IsBaseDigit(seq[i], 10)
        g1 == SubSeq(value, 2, f - 1)
        g2 == SubSeq(value, f + 1, Len(value))
    IN  IF value # <<>> /\ value[1] \in {"s", "S"} /\ f # 0 /\ all_digits(g1) /\ all_digits(g2)
        THEN [matched |-> TRUE, group1 |-> g1, group2 |-> g2]
        ELSE [matched |-> FALSE, group1 |-> <<>>, group2 |-> <<>>]

\* SECSFunction.from_sml
from_sml(source) ==
    LET Finish(tokens, stream, function, w_bit, data) ==
            IF data.kind # "ok" THEN data
            ELSE IF ~HasToken(tokens, data.pos) THEN Raised("IndexError")
            ELSE IF peek_token(tokens, data.pos).value # <<".">>
                 THEN SMLParseError(tokens, peek_token(tokens, data.pos),
                                    "expected final character")
            ELSE Returned(SECSFunction(stream.val, function.val, w_bit, data.val), data.pos + 1)
        Body(tokens, stream, function, w_bit, pos) ==
            IF ~HasToken(tokens, pos) THEN Raised("IndexError")
            ELSE IF peek_token(tokens, pos).value = <<".">>
                 THEN Returned(SECSFunction(stream.val, function.val, w_bit, NoItem), pos)
            ELSE Finish(tokens, stream, function, w_bit, _read_item(tokens, pos))
        WBit(tokens, stream, function, w_bit) ==
            Body(tokens, stream, function, w_bit, IF w_bit THEN 2 ELSE 1)
        Numbers(tokens, stream, function) ==
            IF stream.kind # "ok" THEN Raised(stream.kind)
            ELSE IF function.kind # "ok" THEN Raised(function.kind)
            ELSE IF ~HasToken(tokens, 1) THEN Raised("IndexError")
            ELSE WBit(tokens, stream, function, lower(peek_token(tokens, 1).value) = <<"w">>)
        Match(tokens, stream_function_token, m) ==
            IF ~m.matched
            THEN SMLParseError(tokens, stream_function_token,
                               "expected stream function descriptor")
            ELSE Numbers(tokens, int(m.group1), int(m.group2))
        Header(tokens) ==
            IF ~HasToken(tokens, 0) THEN Raised("IndexError")
            ELSE Match(tokens, peek_token(tokens, 0),
                       stream_function_match(peek_token(tokens, 0).value))
    IN  Header(SMLParser(source))

(***************************************************************************)
(* Canonical SML emission: to_sml and SECSFunction.__repr__.               *)
(***************************************************************************)
Chars(c) == [kind |-> "ok", chars |-> c]
FormatError(kind) == [kind |-> kind, chars |-> <<>>]
Spaces(n) == [i \in 1..n |-> " "]

\* the classes' _format_value
_format_value(cls, value) ==
    CASE cls = "B" -> hex(value)
      [] cls = "BOOLEAN" -> IF value THEN <<"0", "x", "1">> ELSE <<"0", "x", "0">>
      [] OTHER -> str(value)

\* " ".join(...) of the formatted values
RECURSIVE JoinValues(_, _)
JoinValues(cls, values) ==
    IF Len(values) = 1 THEN _format_value(cls, values[1])
    ELSE _format_value(cls, values[1]) \o <<" ">> \o JoinValues(cls, Tail(values))

\* SECSData.to_sml, inherited by the numeric classes, B and BOOLEAN
SECSData_to_sml(item, indent) ==
    IF Len(item.v) = 0 THEN Chars(Spaces(indent) \o <<"<", " ">> \o _sml_type(item.t) \o <<" ", ">">>)
    ELSE Chars(Spaces(indent) \o <<"<", " ">> \o _sml_type(item.t) \o <<" ">>
               \o JoinValues(item.t, item.v) \o <<" ", ">">>)

\* the loop of SECSDataJ.to_sml over the bytes of _value
RECURSIVE SECSDataJ_to_sml_loop(_, _, _)
SECSDataJ_to_sml_loop(value, data, last_char_printable) ==
    IF value = <<>> THEN (IF last_char_printable THEN Append(data, "\"") ELSE data)
    ELSE LET char == Head(value)
         IN  IF IsPrintable(char)
             THEN SECSDataJ_to_sml_loop(Tail(value),
                      IF last_char_printable THEN Append(data, chr(char))
                      ELSE data \o <<" ", "\"", chr(char)>>, TRUE)
             ELSE SECSDataJ_to_sml_loop(Tail(value),
                      IF last_char_printable THEN data \o <<"\"", " ">> \o hex(char)
                      ELSE data \o <<" ">> \o hex(char), FALSE)

\* SECSDataJ.to_sml: `char in self.printable_chars` with a str is a TypeError
SECSDataJ_to_sml(item, indent) ==
    IF item.py = "str" /\ item.v # <<>> THEN FormatError("TypeError")
    ELSE Chars(Spaces(indent) \o <<"<", " ">> \o _sml_type(item.t)
               \o SECSDataJ_to_sml_loop(item.v, <<>>, FALSE) \o <<">">>)

\* SECSDataStr is not among the sources; by the emission rules an A item is
\* `< A >` when empty and else its printable runs and hex bytes between
\* `< A` and ` >`
SECSDataStr_to_sml(item, indent) ==
    Chars(Spaces(indent) \o <<"<", " ">> \o _sml_type(item.t)
          \o SECSDataJ_to_sml_loop(item.v, <<>>, FALSE) \o <<" ", ">">>)

RECURSIVE to_sml(_, _)
RECURSIVE SECSDataL_to_sml_values(_, _)
\* '\n'.join of the children's to_sml(indent + 4)
SECSDataL_to_sml_values(values, indent) ==
    LET first == to_sml(Head(values), indent)
        rest == SECSDataL_to_sml_values(Tail(values), indent)
    IN  IF first.kind # "ok" THEN first
        ELSE IF Len(values) = 1 THEN first
        ELSE IF rest.kind # "ok" THEN rest
        ELSE Chars(first.chars \o <<"\n">> \o rest.chars)

SECSDataL_to_sml(item, indent) ==
    LET values_text == SECSDataL_to_sml_values(item.v, indent + 4)
    IN  IF Len(item.v) = 0 THEN Chars(Spaces(indent) \o <<"<", " ">> \o _sml_type(item.t) \o <<" ", ">">>)
        ELSE IF values_text.kind # "ok" THEN values_text
        ELSE Chars(Spaces(indent) \o <<"<", " ">> \o _sml_type(item.t) \o <<" ", "[">>
                   \o str(Len(item.v)) \o <<"]", "\n">> \o values_text.chars \o <<"\n">>
                   \o Spaces(indent) \o <<">">>)

\* item.to_sml(indent), dispatched on the item's class
to_sml(item, indent) ==
    CASE item.t = "L" -> SECSDataL_to_sml(item, indent)
      [] item.t = "J" -> SECSDataJ_to_sml(item, indent)
      [] item.t = "A" -> SECSDataStr_to_sml(item, indent)
      [] OTHER -> SECSData_to_sml(item, indent)

\* SECSFunction.__repr__
SECSFunction_repr(msg) ==
    LET body == to_sml(msg.data, 4)
        head == <<"S">> \o str(msg.stream) \o <<"F">> \o str(msg.function) \o <<" ">>
                \o (IF msg.w_bit THEN <<"W">> ELSE <<>>) \o <<"\n">>
    IN  IF msg.data = NoItem THEN Chars(head \o <<" ", ".">>)
        ELSE IF body.kind # "ok" THEN body
        ELSE Chars(head \o body.chars \o <<" ", ".">>)

(***************************************************************************)
(* Inputs: SML texts.  A text is its words joined by single spaces, with   *)
(* or without whitespace after the terminator.                             *)
(***************************************************************************)
SeqsUpTo(S, n) == UNION {[1..k -> S] : k \in 0..n}

RECURSIVE JoinWords(_)
JoinWords(words) ==
    IF Len(words) = 1 THEN words[1] ELSE words[1] \o <<" ">> \o JoinWords(Tail(words))

\* the words of `< TAG [N] v1 .. vn >`; count is <<>> when there is no `[N]`
LeafWords(tag, count, values) ==
    << <<"<">>, tag >> \o (IF count = <<>> THEN <<>> ELSE << <<"[">> \o count \o <<"]">> >>)
    \o values \o << <<">">> >>

RECURSIVE FlattenWords(_)
FlattenWords(children) ==
    IF children = <<>> THEN <<>> ELSE Head(children) \o FlattenWords(Tail(children))

\* the words of `< L [N] child .. child >`
ListWords(count, children) == LeafWords(<<"L">>, count, FlattenWords(children))

\* `SxFy [W] item . trail`
MessageText(header, w, item_words, trail) ==
    JoinWords(<<header>> \o (IF w THEN << <<"W">> >> ELSE <<>>) \o item_words \o << <<".">> >>)
    \o trail

Trails == {<<>>, <<" ">>, <<"\n">>}

\* in-range and out-of-range element values tried for each numeric class
InRange(cls) ==
    CASE cls = "U1" -> {0, 1, 255}
      [] cls = "U2" -> {0, 3, 65535}
      [] cls = "I1" -> {-128, 0, 127}
      [] cls = "I2" -> {-32768, 1, 32767}
OutOfRange(cls) ==
    CASE cls = "U1" -> {-1, 256, 300}
      [] cls = "U2" -> {-1, 65536}
      [] cls = "I1" -> {-129, 128}
      [] cls = "I2" -> {-32769, 32768}

StrAll(values) == [i \in 1..Len(values) |-> str(values[i])]

\* numeric leaves: a class and up to MaxVals values, all in range
NumLeaves ==
    UNION {{[cls |-> c, values |-> v] : v \in SeqsUpTo(InRange(c), MaxVals)} : c \in ValueClasses}
\* numeric leaves with exactly one out-of-range value, at any position
BadNumLeaves ==
    UNION {UNION {{[cls |-> c, values |-> [v EXCEPT ![i] = bad], at |-> i] :
                     i \in 1..Len(v), bad \in OutOfRange(c)} :
                  v \in SeqsUpTo({1}, MaxVals)} :
           c \in ValueClasses}
\* numeric leaves with an explicit count `[N]`
CountedLeaves ==
    {[cls |-> c, count |-> n, values |-> v] :
        c \in {"U1", "I2"}, n \in 0..(MaxVals + 1), v \in SeqsUpTo({1}, MaxVals)}
\* those whose count is positive and differs from the number of values
MiscountedLeaves == {l \in CountedLeaves : l.count > 0 /\ l.count # Len(l.values)}

NumLeafText(leaf, trail) ==
    MessageText(<<"S", "1", "F", "3">>, FALSE,
                LeafWords(_sml_type(leaf.cls), <<>>, StrAll(leaf.values)), trail)
CountedLeafText(leaf, trail) ==
    MessageText(<<"S", "1", "F", "3">>, FALSE,
                LeafWords(_sml_type(leaf.cls), str(leaf.count), StrAll(leaf.values)), trail)

\* the scenarios of the specification, character for character
EmptyListText == MessageText(<<"S", "1", "F", "1">>, TRUE, ListWords(<<>>, <<>>), <<>>)
SingleU2Text == MessageText(<<"S", "2", "F", "1", "3">>, FALSE,
                            LeafWords(<<"U", "2">>, <<>>, StrAll(<<0, 1, 2, 3>>)), <<>>)
NestedListText ==
    MessageText(<<"S", "1", "F", "2">>, FALSE,
                ListWords(<<"2">>, <<LeafWords(<<"A">>, <<>>, << <<"\"", "o", "k", "\"">> >>),
                                     LeafWords(<<"U", "1">>, <<>>, << <<"4", "2">> >>)>>), <<>>)
OutOfRangeText == MessageText(<<"S", "1", "F", "3">>, FALSE,
                              LeafWords(<<"U", "1">>, <<>>, << <<"3", "0", "0">> >>), <<>>)
CountMismatchText == MessageText(<<"S", "1", "F", "3">>, FALSE,
                                 LeafWords(<<"U", "1">>, <<"3">>, StrAll(<<1, 2>>)), <<>>)
ScenarioTexts == {EmptyListText, SingleU2Text, NestedListText, OutOfRangeText, CountMismatchText}

\* other well-formed bodies: byte, boolean and string leaves, lists, no body
OtherItemWords ==
    {LeafWords(<<"B">>, <<>>, << <<"0", "x", "1">>, <<"2", "5", "5">> >>),
     LeafWords(<<"B", "O", "O", "L", "E", "A", "N">>, <<>>, << <<"0", "x", "0">>, <<"1">> >>),
     LeafWords(<<"J">>, <<>>, << <<"\"", "o", "k", "\"">>, <<"0", "x", "1">> >>),
     LeafWords(<<"J">>, <<>>, <<>>),
     LeafWords(<<"u", "1">>, <<>>, << <<"4", "2">> >>)}
ChildWords ==
    {LeafWords(<<"U", "1">>, <<>>, << <<"4", "2">> >>),
     LeafWords(<<"J">>, <<>>, << <<"\"", "o", "k", "\"">> >>),
     ListWords(<<>>, <<>>)}
ListItemWords ==
    {ListWords(<<>>, c) : c \in SeqsUpTo(ChildWords, MaxChildren)} \cup
    {ListWords(str(Len(c)), c) : c \in SeqsUpTo(ChildWords, MaxChildren)} \cup
    {ListWords(<<>>, <<ListWords(<<"1">>, <<c>>)>>) : c \in ChildWords}
Headers == {<<"S", "1", "F", "1">>, <<"s", "1", "2", "7", "f", "2", "5", "5">>}

OtherTexts ==
    {MessageText(h, w, i, t) : h \in Headers, w \in BOOLEAN,
                               i \in OtherItemWords \cup ListItemWords, t \in Trails \ {<<"\n">>}}
\* messages without a body
NoBodyTexts == {MessageText(h, w, <<>>, t) : h \in Headers, w \in BOOLEAN, t \in Trails}

\* the well-formed messages: grammatical, every value within its class's
\* bounds, every explicit positive count equal to the number of elements
WellFormedTexts ==
    {NumLeafText(l, t) : l \in NumLeaves, t \in Trails} \cup OtherTexts \cup NoBodyTexts
    \cup {CountedLeafText(l, t) : l \in CountedLeaves \ MiscountedLeaves, t \in Trails \ {<<"\n">>}}
    \cup {EmptyListText, SingleU2Text, NestedListText}
\* messages the parser has to reject
FaultyTexts ==
    {NumLeafText(l, t) : l \in BadNumLeaves, t \in Trails \ {<<"\n">>}} \cup
    {CountedLeafText(l, t) : l \in MiscountedLeaves, t \in Trails \ {<<"\n">>}} \cup
    {OutOfRangeText, CountMismatchText,
     <<"\n">> \o OutOfRangeText, <<" ", " ">> \o OutOfRangeText}
\* first tokens that are no stream/function descriptor S<digits>F<digits>
BadHeaders ==
    {<<"S", "F">>, <<"S", "1", "F">>, <<"S", "F", "1">>, <<"s", "f">>, <<"X", "1", "F", "1">>,
     <<"S", "1", "F", "1", "x">>, <<"S", "-", "1", "F", "1">>, <<"1", "F", "1">>, <<"S", "1">>}
HeaderText(h) == MessageText(h, FALSE, ListWords(<<>>, <<>>), <<" ">>)
BadHeaderTexts == {HeaderText(h) : h \in BadHeaders}
\* malformed messages: cut short, no terminator, no closing '>', a value or
\* a count that is no number, a stray '>' and an unknown tag
MalformedTexts ==
    {<<>>,
     JoinWords(<< <<"S", "1", "F", "1">> >>),
     JoinWords(<< <<"S", "1", "F", "1">>, <<"W">> >>) \o <<" ">>,
     JoinWords(<< <<"S", "1", "F", "1">>, <<"<">>, <<"L">> >>) \o <<" ">>,
     JoinWords(<< <<"S", "1", "F", "1">>, <<"<">>, <<"L">>, <<">">> >>) \o <<" ">>,
     JoinWords(<< <<"S", "1", "F", "1">>, <<"<">>, <<"U", "1">>, <<"1">>, <<".">> >>) \o <<" ">>,
     MessageText(<<"S", "1", "F", "1">>, FALSE,
                 LeafWords(<<"U", "1">>, <<>>, << <<"a", "b", "c">> >>), <<" ">>),
     MessageText(<<"S", "1", "F", "1">>, FALSE, ListWords(<<"x">>, <<>>), <<" ">>),
     MessageText(<<"S", "1", "F", "1">>, FALSE, << <<">">> >>, <<" ">>),
     MessageText(<<"S", "1", "F", "1">>, FALSE, LeafWords(<<"X">>, <<>>, <<>>), <<" ">>),
     MessageText(<<"S", "1", "F", "1">>, FALSE,
                 LeafWords(<<"U", "1">>, <<>>, << <<"1">>, <<">">> >>), <<" ">>)}
\* lists whose body is ended by '.' where '>' belongs: an empty list, a list
\* of one leaf, and an inner list whose outer list is closed properly
DotClosedTexts ==
    {JoinWords(<< <<"S", "1", "F", "1">>, <<"<">>, <<"L">>, <<".">>, <<".">> >>) \o <<" ">>,
     JoinWords(<< <<"S", "1", "F", "1">>, <<"<">>, <<"L">>,
                  <<"<">>, <<"U", "1">>, <<"1">>, <<">">>, <<".">>, <<".">> >>) \o <<" ">>,
     JoinWords(<< <<"S", "1", "F", "1">>, <<"<">>, <<"L">>,
                  <<"<">>, <<"L">>, <<".">>, <<">">>, <<".">> >>) \o <<" ">>}
\* lists with an explicit count from 0 to one more than the most children
CountedLists ==
    {[count |-> n, children |-> c] :
        n \in 0..(MaxChildren + 1), c \in SeqsUpTo(ChildWords, MaxChildren)}
CountedListText(l) ==
    MessageText(<<"S", "1", "F", "1">>, FALSE, ListWords(str(l.count), l.children), <<" ">>)
\* an inner list with a wrong count
NestedMiscountText ==
    MessageText(<<"S", "1", "F", "1">>, FALSE,
                ListWords(<<>>, <<ListWords(<<"2">>, <<ListWords(<<>>, <<>>)>>)>>), <<" ">>)
\* lists with a wrong count whose body fails before it is closed: a child
\* with an unknown tag, and a text that ends before the closing '>'
UnclosedMiscountTexts ==
    {MessageText(<<"S", "1", "F", "1">>, FALSE,
                 ListWords(<<"2">>, <<LeafWords(<<"X">>, <<>>, <<>>)>>), <<" ">>),
     JoinWords(<< <<"S", "1", "F", "1">>, <<"<">>, <<"L">>, <<"[", "2", "]">>,
                  <<"<">>, <<"L">>, <<">">> >>) \o <<" ">>}
\* `< TAG >` for every leaf class
EmptyLeafText(cls) ==
    MessageText(<<"S", "1", "F", "1">>, FALSE, LeafWords(_sml_type(cls), <<>>, <<>>), <<" ">>)
\* descriptors with a stream above 127 or a function above 255, and the
\* lowest and highest descriptors in range
WideHeaders ==
    {<<"S", "1", "2", "8", "F", "1">>, <<"S", "1", "F", "2", "5", "6">>,
     <<"S", "9", "9", "9", "F", "9", "9", "9">>}
EdgeHeaders == {<<"S", "0", "F", "0">>, <<"S", "1", "2", "7", "F", "2", "5", "5">>}
SmlTexts ==
    {HeaderText(h) : h \in WideHeaders \cup EdgeHeaders} \cup
    {EmptyLeafText(cls) : cls \in ItemClasses \ {"L"}} \cup
    WellFormedTexts \cup FaultyTexts \cup BadHeaderTexts \cup MalformedTexts \cup DotClosedTexts
    \cup {CountedListText(l) : l \in CountedLists} \cup {NestedMiscountText}
    \cup UnclosedMiscountTexts

(***************************************************************************)
(* The SML pipeline: a text is parsed, the root item is encoded and        *)
(* decoded again, the message is formatted and the output re-parsed.       *)
(***************************************************************************)
Pending == [kind |-> "pending"]
NoCall == [cls |-> "None"]
\* no command server was started
ServerIdle == server = Pending /\ events = <<>>
\* no HSMS connection was opened
ConnectionIdle == arrived = <<>> /\ callback = Pending /\ responses = <<>> /\ waits = <<>>

InitSml ==
    /\ text \in SmlTexts
    /\ parsed = Pending /\ wire = Pending /\ decoded = Pending
    /\ formatted = Pending /\ reparsed = Pending
    /\ host = NoCall /\ built = Pending /\ hdrIn = NoCall /\ hdrOut = Pending /\ raw = <<>>
    /\ argv = <<>> /\ cli = Pending /\ lexed = Pending /\ ServerIdle /\ ConnectionIdle

\* SECSFunction.from_sml(text)
FromSml ==
    /\ parsed = Pending
    /\ parsed' = from_sml(text)
    /\ UNCHANGED <<text, wire, decoded, formatted, reparsed, host, built, hdrIn, hdrOut, raw,
                 argv, cli, lexed, server, events,
                 arrived, callback, responses, waits>>

\* the binary body of the parsed message: data.encode()
EncodeRoot ==
    /\ parsed.kind = "ok" /\ parsed.val.data # NoItem /\ wire = Pending
    /\ wire' = encode(parsed.val.data)
    /\ UNCHANGED <<text, parsed, decoded, formatted, reparsed, host, built, hdrIn, hdrOut, raw,
                 argv, cli, lexed, server, events,
                 arrived, callback, responses, waits>>

\* SECSData.decode(PacketData(...)) on the encoded body
DecodeWire ==
    /\ wire.kind = "ok" /\ decoded = Pending
    /\ decoded' = decode(wire.bytes)
    /\ UNCHANGED <<text, parsed, wire, formatted, reparsed, host, built, hdrIn, hdrOut, raw,
                 argv, cli, lexed, server, events,
                 arrived, callback, responses, waits>>

\* repr() of the parsed message
Repr ==
    /\ parsed.kind = "ok" /\ formatted = Pending
    /\ formatted' = SECSFunction_repr(parsed.val)
    /\ UNCHANGED <<text, parsed, wire, decoded, reparsed, host, built, hdrIn, hdrOut, raw,
                 argv, cli, lexed, server, events,
                 arrived, callback, responses, waits>>

\* SECSFunction.from_sml on the emitted text
Reparse ==
    /\ formatted.kind = "ok" /\ reparsed = Pending
    /\ reparsed' = from_sml(formatted.chars)
    /\ UNCHANGED <<text, parsed, wire, decoded, formatted, host, built, hdrIn, hdrOut, raw,
                 argv, cli, lexed, server, events,
                 arrived, callback, responses, waits>>

NextSml == FromSml \/ EncodeRoot \/ DecodeWire \/ Repr \/ Reparse
SpecSml == InitSml /\ [][NextSml]_vars

(***************************************************************************)
(* Inputs of the codec: constructor calls, header lengths, raw buffers.    *)
(***************************************************************************)
Call(cls, value) == [cls |-> cls, value |-> value]

\* numeric classes built from a scalar, from a list of ints, or from a str
HostInts(cls) == InRange(cls) \cup OutOfRange(cls)
NumberCalls ==
    UNION {{Call(c, HostValue("int", "int", <<v>>)) : v \in HostInts(c)} \cup
           {Call(c, HostValue("list", "int", v)) : v \in SeqsUpTo(HostInts(c), MaxVals)}
           : c \in ValueClasses}
ByteValues == {0, 107, 255}
BytesCalls ==
    {Call(c, HostValue("bytes", "int", v)) : c \in {"B", "J", "A"}, v \in SeqsUpTo(ByteValues, MaxVals)}
    \cup {Call("B", HostValue("int", "int", <<v>>)) : v \in {0, 2, 256}}
    \cup {Call("B", HostValue("list", "int", v)) : v \in SeqsUpTo({0, 2, 256}, MaxVals)}
    \cup {Call("BOOLEAN", HostValue("int", "int", <<v>>)) : v \in {0, 1, 2}}
    \cup {Call("BOOLEAN", HostValue("list", "int", v)) : v \in SeqsUpTo({0, 1, 2}, MaxVals)}
StrCalls ==
    {Call(c, HostValue("str", "str", v)) : c \in {"J", "A", "B", "U1", "L"},
                                          v \in {<<>>, <<"o", "k">>}}
BoolCalls ==
    {Call("BOOLEAN", HostValue("list", "bool", v)) : v \in SeqsUpTo(BOOLEAN, MaxVals)}
    \cup {Call("BOOLEAN", HostValue("bool", "bool", <<v>>)) : v \in BOOLEAN}

\* children of the lists: leaves of several classes, an empty and a nested list
ChildItems ==
    <<Item("U1", "list", <<42>>), Item("I2", "list", <<-2>>), Item("J", "bytes", <<111, 107>>),
      Item("B", "bytes", <<>>), Item("BOOLEAN", "list", <<TRUE>>), Item("L", "list", <<>>),
      Item("L", "list", <<Item("U2", "list", <<258>>), Item("L", "list", <<>>)>>)>>
\* the lists are given by the indices of their children in ChildItems
ChildChoices == SeqsUpTo(1..Len(ChildItems), MaxChildren)
ListCall(choice) ==
    Call("L", HostValue("list", "SECSData", [i \in 1..Len(choice) |-> ChildItems[choice[i]]]))

\* lengths around every header-width boundary and the two limits
HeaderLengths ==
    UNION {(b - MaxHdrStep)..(b + MaxHdrStep) : b \in {0, 255, 65535, 16777215}}
HeaderCalls == {[cls |-> c, length |-> n] : c \in ItemClasses, n \in HeaderLengths}

\* raw buffers: every format byte, followed by a few short tails;
\* among them a length beyond the buffer and a length that is no multiple of 2
RawTails == {<<>>, <<0>>, <<1, 7>>, <<2, 1, 2>>, <<3, 1, 2>>, <<3, 1, 2, 3>>, <<4, 1, 2, 3>>}
\* list buffers: the bytes, the declared number of children and the bytes
\* that follow the last child's encoding.  Two children and a trailing
\* byte, no child before another item, and a nested list
ListRaws ==
    {[bytes |-> <<1, 2, 165, 1, 42, 33, 0, 99>>, k |-> 2, rest |-> <<99>>],
     [bytes |-> <<1, 0, 165, 1, 42>>, k |-> 0, rest |-> <<165, 1, 42>>],
     [bytes |-> <<1, 2, 1, 1, 165, 1, 42, 33, 0, 7>>, k |-> 2, rest |-> <<7>>]}
\* a list of one U2 child that declares three bytes of payload, then an item
OddChildRaw == <<1, 1, 169, 3, 1, 2, 3, 33, 0>>
RawBuffers ==
    {<<>>} \cup {<<b>> \o t : b \in 0..255, t \in RawTails} \cup {r.bytes : r \in ListRaws}
    \cup {OddChildRaw}

(***************************************************************************)
(* The codec: an item is built from a host value, encoded and decoded      *)
(* again; a header is encoded for a length; a raw buffer is decoded.       *)
(***************************************************************************)
InitIdle ==
    /\ text = <<>> /\ parsed = Pending /\ formatted = Pending /\ reparsed = Pending
    /\ wire = Pending /\ decoded = Pending /\ built = Pending /\ hdrOut = Pending
    /\ argv = <<>> /\ cli = Pending /\ lexed = Pending /\ ServerIdle /\ ConnectionIdle

InitConstruct ==
    /\ InitIdle /\ hdrIn = NoCall /\ raw = <<>>
    /\ \/ host \in NumberCalls
       \/ host \in BytesCalls
       \/ host \in StrCalls
       \/ host \in BoolCalls
       \/ \E choice \in ChildChoices : host = ListCall(choice)

InitHeader == InitIdle /\ host = NoCall /\ raw = <<>> /\ hdrIn \in HeaderCalls

InitRaw == InitIdle /\ host = NoCall /\ hdrIn = [cls |-> "raw"] /\ raw \in RawBuffers

Init == InitConstruct \/ InitHeader \/ InitRaw

\* cls(value)
Construct ==
    /\ host # NoCall /\ built = Pending
    /\ built' = SECSData_init(host.cls, host.value)
    /\ UNCHANGED <<text, parsed, wire, decoded, formatted, reparsed, host, hdrIn, hdrOut, raw,
                 argv, cli, lexed, server, events,
                 arrived, callback, responses, waits>>

\* item.encode() on the item built
Encode ==
    /\ built.kind = "ok" /\ wire = Pending
    /\ wire' = encode(built.val)
    /\ UNCHANGED <<text, parsed, decoded, formatted, reparsed, host, built, hdrIn, hdrOut, raw,
                 argv, cli, lexed, server, events,
                 arrived, callback, responses, waits>>

\* SECSData.decode(PacketData(...)) on the bytes encoded
Decode ==
    /\ wire.kind = "ok" /\ decoded = Pending
    /\ decoded' = decode(wire.bytes)
    /\ UNCHANGED <<text, parsed, wire, formatted, reparsed, host, built, hdrIn, hdrOut, raw,
                 argv, cli, lexed, server, events,
                 arrived, callback, responses, waits>>

\* item.encode_item_header(length) on an item of the class
EncodeItemHeader ==
    /\ hdrIn \notin {NoCall, [cls |-> "raw"]} /\ hdrOut = Pending
    /\ hdrOut' = encode_item_header(hdrIn.cls, hdrIn.length)
    /\ UNCHANGED <<text, parsed, wire, decoded, formatted, reparsed, host, built, hdrIn, raw,
                 argv, cli, lexed, server, events,
                 arrived, callback, responses, waits>>

\* SECSData.decode(PacketData(raw)) on a received buffer
DecodeRaw ==
    /\ hdrIn = [cls |-> "raw"] /\ decoded = Pending
    /\ decoded' = decode(raw)
    /\ UNCHANGED <<text, parsed, wire, formatted, reparsed, host, built, hdrIn, hdrOut, raw,
                 argv, cli, lexed, server, events,
                 arrived, callback, responses, waits>>

Next == Construct \/ Encode \/ Decode \/ EncodeItemHeader \/ DecodeRaw
Spec == Init /\ [][Next]_vars

(***************************************************************************)
(* Properties.                                                             *)
(***************************************************************************)
Done(result) == result.kind # "pending"

\* structural equality of two items: same class, same kind of payload, same
\* elements in the same order, children compared the same way
RECURSIVE SameItem(_, _)
SameItem(a, b) ==
    /\ a.t = b.t /\ a.py = b.py /\ Len(a.v) = Len(b.v)
    /\ \A i \in 1..Len(a.v) : IF a.t = "L" THEN SameItem(a.v[i], b.v[i]) ELSE a.v[i] = b.v[i]

\* C1 - binary round trip: every item a constructor call builds is encoded
\* without an error, and decoding those bytes gives an item of the same
\* class with the same payload
C1_BinaryRoundTrip ==
    (host # NoCall /\ built.kind = "ok") =>
        /\ Done(wire) => wire.kind = "ok"
        /\ Done(decoded) => decoded.kind = "ok" /\ SameItem(decoded.val, built.val)

\* C2 - cross round trip: a well-formed message is parsed, its root item is
\* encoded, and decoding the bytes gives an item equal to the parsed root
C2_CrossRoundTrip ==
    text \in WellFormedTexts \ NoBodyTexts =>
        /\ Done(parsed) => parsed.kind = "ok"
        /\ Done(wire) => wire.kind = "ok"
        /\ Done(decoded) => decoded.kind = "ok" /\ SameItem(decoded.val, parsed.val.data)

\* C3 - SML round trip: re-parsing the text emitted for a parsed well-formed
\* message succeeds and gives the same stream, function, W-bit and tree
C3_SmlRoundTrip ==
    (text \in WellFormedTexts /\ Done(reparsed)) =>
        /\ reparsed.kind = "ok"
        /\ reparsed.val.stream = parsed.val.stream
        /\ reparsed.val.function = parsed.val.function
        /\ reparsed.val.w_bit = parsed.val.w_bit
        /\ SameItem(reparsed.val.data, parsed.val.data)

\* C4 - bounds: constructing a numeric item from a scalar or a list that
\* holds an out-of-range value at any position is rejected with a
\* value-range error, and no item built holds an out-of-range element
C4_Bounds ==
    (host # NoCall /\ host.cls \in ValueClasses /\ host.value.of = "int" /\ Done(built)) =>
        /\ (\E i \in 1..Len(host.value.x) : host.value.x[i] \in OutOfRange(host.cls))
              => built.kind = "ValueError" /\ built.msg = "out of bounds"
        /\ built.kind = "ok" =>
              \A i \in 1..Len(built.val.v) :
                  /\ built.val.v[i] >= _minimum_value(host.cls)
                  /\ built.val.v[i] <= _maximum_value(host.cls)

\* C5 - header-size minimality: for a length n in 0..0xFFFFFF the header is
\* encoded, the low two bits of its format byte are the number of length
\* bytes that follow, that number is 1 up to 0xFF, 2 up to 0xFFFF and else 3,
\* and the length bytes hold n big-endian
C5_HeaderSizeMinimality ==
    (Done(hdrOut) /\ hdrIn.length \in 0..16777215) =>
        /\ hdrOut.kind = "ok"
        /\ LET b == hdrOut.bytes
               n == hdrIn.length
               k == b[1] % 4
           IN  /\ k = Len(b) - 1
               /\ k = IF n <= 255 THEN 1 ELSE IF n <= 65535 THEN 2 ELSE 3
               /\ \A i \in 1..Len(b) : b[i] \in 0..255
               /\ n = CASE k = 1 -> b[2]
                        [] k = 2 -> b[2] * 256 + b[3]
                        [] k = 3 -> b[2] * 65536 + b[3] * 256 + b[4]
                        [] OTHER -> -1
C5_Witness == Done(hdrOut) /\ hdrIn.length = 65536 /\ Len(hdrOut.bytes) = 4

\* C6 - unknown-code rejection: decoding a buffer whose first byte carries a
\* 6-bit code that is not the format code of an item class raises the
\* unknown-type error and builds no item
C6_UnknownCodeRejection ==
    (hdrIn = [cls |-> "raw"] /\ Done(decoded) /\ raw # <<>>
        /\ (raw[1] \div 4) \notin {_hsms_type(c) : c \in ItemClasses}) =>
        /\ decoded.kind = "Exception" /\ decoded.msg = "unknown data type"
        /\ decoded.val = NoItem
C6_Witness ==
    /\ hdrIn = [cls |-> "raw"] /\ Done(decoded) /\ Len(raw) > 1 /\ raw[1] \div 4 = 63
    /\ decoded.kind = "Exception"

\* C7 - empty-list scenario: `S1F1 W < L > .` parses to stream 1, function 1,
\* W-bit set and an empty L as root, and the root encodes to 01 00
C7_EmptyListScenario ==
    text = EmptyListText =>
        /\ Done(parsed) => /\ parsed.kind = "ok"
                           /\ parsed.val = SECSFunction(1, 1, TRUE, Item("L", "list", <<>>))
        /\ Done(wire) => wire.kind = "ok" /\ wire.bytes = <<1, 0>>

\* C8 - multi-element numeric encode: a numeric item parsed from n values
\* keeps the n values in order and encodes to a header with length
\* n x element size and the values packed big-endian; `S2F13 < U2 0 1 2 3 > .`
\* encodes to A9 08 00 00 00 01 00 02 00 03
C8_MultiElementNumericEncode ==
    /\ \A leaf \in NumLeaves, trail \in Trails :
          (text = NumLeafText(leaf, trail) /\ parsed.kind = "ok") =>
              /\ parsed.val.data.t = leaf.cls
              /\ parsed.val.data.v = leaf.values
              /\ (Done(wire) => /\ wire.kind = "ok"
                                /\ wire.bytes = <<_hsms_type(leaf.cls) * 4 + 1,
                                                  Len(leaf.values) * _bytes(leaf.cls)>>
                                                \o PackAll(leaf.cls, leaf.values))
    /\ text = SingleU2Text =>
          /\ Done(parsed) => parsed.kind = "ok" /\ parsed.val.data.v = <<0, 1, 2, 3>>
          /\ Done(wire) => wire.bytes = <<169, 8, 0, 0, 0, 1, 0, 2, 0, 3>>

\* C9 - out-of-range scenario: `S1F3 < U1 300 > .` raises the value-range
\* parse error carrying the token 300, rendered with the source line and the
\* caret under the column of the token's first digit (column 11)
C9_OutOfRangeScenario ==
    (text = OutOfRangeText /\ Done(parsed)) =>
        /\ parsed.kind = "SMLParseError" /\ parsed.msg = "out of bounds"
        /\ parsed.token.value = <<"3", "0", "0">>
        /\ parsed.error.source_line = OutOfRangeText
        /\ parsed.error.caret_column = 11

\* C10 - count mismatch: a leaf item with an explicit count N > 0 that
\* differs from the number of values read is rejected with the
\* count-mismatch error at the count token; so is `S1F3 < U1 [3] 1 2 > .`
C10_CountMismatch ==
    /\ \A leaf \in MiscountedLeaves, trail \in Trails :
          (text = CountedLeafText(leaf, trail) /\ Done(parsed)) =>
              /\ parsed.kind = "SMLParseError" /\ parsed.msg = "length mismatch"
              /\ parsed.token.value = str(leaf.count)
    /\ (text = CountMismatchText /\ Done(parsed)) =>
          /\ parsed.kind = "SMLParseError" /\ parsed.msg = "length mismatch"
          /\ parsed.token.value = <<"3">>
\* what the header of a raw buffer declares: the 6-bit code, the number of
\* length bytes, the length they hold, and the bytes that follow the header
RawCode == raw[1] \div 4
RawLengthBytes == raw[1] % 4
RawHeaderComplete == raw # <<>> /\ Len(raw) >= 1 + RawLengthBytes
RawDeclared == FromBigEndian(SubSeq(raw, 2, 1 + RawLengthBytes), 0)
RawRemaining == Len(raw) - 1 - RawLengthBytes
RawDecoded == hdrIn = [cls |-> "raw"] /\ Done(decoded) /\ RawHeaderComplete
RawClassIn(classes) == RawCode \in {_hsms_type(c) : c \in classes}
\* the decoder's truncated-payload error, with no item returned
TruncatedPayload ==
    decoded.kind = "ValueError" /\ decoded.msg = "not enough data" /\ decoded.val = NoItem

\* C11 - truncated fixed-width payload: decoding a numeric item whose
\* declared length exceeds the bytes left in the buffer raises the
\* truncated-payload error and returns no item; A5 04 01 02 03 is rejected
C11_TruncatedFixedWidth ==
    /\ (RawDecoded /\ RawClassIn(NumberClasses) /\ RawDeclared > RawRemaining) => TruncatedPayload
    /\ (raw = <<165, 4, 1, 2, 3>> /\ Done(decoded)) => TruncatedPayload

\* C12 - truncated byte, string and list payload: for B, BOOLEAN, A, J and L
\* a declared length (child count for L) beyond the buffer raises the
\* truncated-payload error, and no item returned holds fewer elements than
\* its header declares
C12_TruncatedPayload ==
    (RawDecoded /\ RawClassIn({"B", "BOOLEAN", "A", "J", "L"})) =>
        /\ (~RawClassIn({"L"}) /\ RawDeclared > RawRemaining) => TruncatedPayload
        /\ (RawClassIn({"L"}) /\ RawDeclared > 0 /\ RawRemaining = 0) => TruncatedPayload
        /\ decoded.kind = "ok" => Len(decoded.val.v) >= RawDeclared

\* C13 - length-multiple check: a numeric item with elements wider than one
\* byte whose declared length is no multiple of the element size raises the
\* truncated-payload error
C13_LengthMultiple ==
    (RawDecoded /\ \E c \in NumberClasses :
                      /\ RawCode = _hsms_type(c) /\ _bytes(c) > 1
                      /\ RawDeclared % _bytes(c) # 0) => TruncatedPayload

\* C14 - no partial state on a decode error: when decode raises, the buffer
\* view is what it was before the call; when it returns a leaf item, no byte
\* beyond the header and the declared length was read
C14_NoPartialState ==
    (hdrIn = [cls |-> "raw"] /\ Done(decoded)) =>
        /\ decoded.kind # "ok" => decoded.data = raw
        /\ (decoded.kind = "ok" /\ decoded.val.t # "L") =>
              Len(raw) - Len(decoded.data) <= 1 + RawLengthBytes + RawDeclared
\* C15 - stream/function header: a first token that is not S<digits>F<digits>
\* with a digit in each position (such as SF, S1F, SF1) is rejected with the
\* descriptor parse error located at that token, and the first token of a
\* well-formed message is never rejected that way
C15_StreamFunctionHeader ==
    /\ \A h \in BadHeaders :
          (text = HeaderText(h) /\ Done(parsed)) =>
              /\ parsed.kind = "SMLParseError"
              /\ parsed.msg = "expected stream function descriptor"
              /\ parsed.token.value = h
    /\ (text \in WellFormedTexts /\ Done(parsed)) =>
          parsed.msg # "expected stream function descriptor"

\* C16 - malformed SML surfaces only as a parse error: from_sml returns a
\* message or raises the parser's error carrying the offending token, never
\* another kind of error
C16_OnlyParseErrors ==
    Done(parsed) =>
        \/ parsed.kind = "ok"
        \/ parsed.kind = "SMLParseError" /\ parsed.token # NoToken

(***************************************************************************)
(* The command line.  CommandLine builds an argparse.ArgumentParser with   *)
(* a required sub-command stored as "command", one sub-parser for every    *)
(* registered CLITask carrying that task's arguments, and parse hands the  *)
(* argument list to parse_args.  Arguments, option strings and attribute   *)
(* names are sequences of characters.  The argument lists drawn hold no    *)
(* "=", no space, no negative number and no single-dash argument longer    *)
(* than two characters, for which argparse has further rules.              *)
(***************************************************************************)
MaxArgs == 3        \* most arguments of a command line

startswith(s, prefix) == Len(prefix) <= Len(s) /\ SubSeq(s, 1, Len(prefix)) = prefix

\* the value of an attribute that was never given and has no default
None == <<"None">>

\* cli_tasks.SERVER_ARGS
SERVER_ARGS ==
    << [name |-> <<"-", "-", "h", "o", "s", "t">>, default |-> <<"l", "o", "c", "a", "l", "h", "o", "s", "t">>, dest |-> <<"s", "e", "r", "v", "e", "r", "_", "h", "o", "s", "t">>],
       [name |-> <<"-", "-", "p", "o", "r", "t">>, default |-> 4000, dest |-> <<"s", "e", "r", "v", "e", "r", "_", "p", "o", "r", "t">>] >>

\* CLITask.commands(): the classes stored by __init_subclass__, in the order
\* of their definition, each with its name() and args()
CLITask_commands ==
    << [name |-> <<"s", "t", "a", "r", "t", "_", "s", "e", "r", "v", "e", "r">>, args |-> SERVER_ARGS],
       [name |-> <<"r", "u", "n", "_", "s", "e", "r", "v", "e", "r">>, args |-> SERVER_ARGS],
       [name |-> <<"p", "i", "n", "g", "_", "s", "e", "r", "v", "e", "r">>, args |-> SERVER_ARGS],
       [name |-> <<"s", "t", "o", "p", "_", "s", "e", "r", "v", "e", "r">>, args |-> SERVER_ARGS],
       [name |-> <<"r", "u", "n", "_", "s", "c", "r", "i", "p", "t">>, args |-> << [name |-> <<"s", "c", "r", "i", "p", "t", "_", "n", "a", "m", "e">>] >>] >>

\* add_subparsers(help='commands', dest="command") with the default required=False
subparsers_optional == FALSE

\* add_subparsers(help='commands', dest="command", required=True)
subparsers_required == TRUE

\* CommandLine.__init__: the top parser holds the sub-command, each
\* sub-parser the arguments of its command (_add_command_arguments)
CommandLine_init(commands) ==
    [args |-> <<>>, required |-> subparsers_required,
     choices |-> [k \in DOMAIN commands |->
                     [name |-> commands[k].name,
                      parser |-> [args |-> commands[k].args, choices |-> <<>>]]]]

SystemExit(code) == [kind |-> "SystemExit", code |-> code]

\* add_argument(name, ...): an optional when the name starts with "-"
OptionalArgs(parser) ==
    {parser.args[k] : k \in {j \in DOMAIN parser.args : parser.args[j].name[1] = "-"}}

\* ArgumentParser._parse_optional / _get_option_tuples: the pattern letter
\* of one argument and the option string it selects (<<>> when the parser
\* has no such option); every parser has -h and --help
_parse_optional(parser, arg_string) ==
    LET option_string_actions ==
            {<<"-", "h">>, <<"-", "-", "h", "e", "l", "p">>} \cup {a.name : a \in OptionalArgs(parser)}
        Positional == [c |-> "A"]
        Optional(option_string) == [c |-> "O", option_string |-> option_string]
        option_tuples ==
            IF arg_string[2] = "-"
            THEN {o \in option_string_actions : startswith(o, arg_string)}
            ELSE {o \in option_string_actions :
                     o = SubSeq(arg_string, 1, 2) \/ startswith(o, arg_string)}
    IN  IF arg_string = <<>> THEN Positional
        ELSE IF arg_string[1] # "-" THEN Positional
        ELSE IF arg_string \in option_string_actions THEN Optional(arg_string)
        ELSE IF Len(arg_string) = 1 THEN Positional
        ELSE IF Cardinality(option_tuples) > 1 THEN [c |-> "error"]
        ELSE IF Cardinality(option_tuples) = 1
             THEN Optional(CHOOSE o \in option_tuples : TRUE)
        ELSE Optional(<<>>)

\* parse_known_args: the pattern of the argument strings; "--" is "-" and
\* everything after it is positional
arg_strings_pattern(parser, arg_strings) ==
    [k \in DOMAIN arg_strings |->
        IF \E j \in 1..(k - 1) : arg_strings[j] = <<"-", "-">> THEN [c |-> "A"]
        ELSE IF arg_strings[k] = <<"-", "-">> THEN [c |-> "-"]
        ELSE _parse_optional(parser, arg_strings[k])]

\* parse_known_args: the attributes every action starts with
Defaults(parser) ==
    LET Default(a) == IF a.name[1] # "-" THEN a.name :> None
                      ELSE a.dest :> a.default
        RECURSIVE All(_)
        All(k) == IF k > Len(parser.args) THEN <<>>
                  ELSE Default(parser.args[k]) @@ All(k + 1)
    IN  IF parser.choices # <<>> THEN <<"c", "o", "m", "m", "a", "n", "d">> :> None ELSE All(1)

RECURSIVE consume(_, _, _, _, _)
RECURSIVE parse_known_args(_, _)

\* consume_positionals: the number of argument strings matched by the
\* positional still to be parsed, "-*A[-AO]*" for the sub-command and
\* "-*A-*" for a plain positional
match_partial(parser, pattern, start_index, st) ==
    LET first == IF start_index <= Len(pattern) /\ pattern[start_index].c = "-"
                 THEN start_index + 1 ELSE start_index
    IN  IF ~st.positional THEN 0
        ELSE IF first > Len(pattern) \/ pattern[first].c # "A" THEN 0
        ELSE IF parser.choices # <<>> THEN Len(pattern) - start_index + 1
        ELSE IF first + 1 <= Len(pattern) /\ pattern[first + 1].c = "-"
        THEN first - start_index + 2
        ELSE first - start_index + 1

\* take_action for the positional: _SubParsersAction.__call__ stores the
\* command, runs the sub-parser on the rest and copies its attributes; a
\* plain positional stores its one value, "--" removed
take_positional(parser, arg_strings, st) ==
    LET parser_name == arg_strings[1]
        Found == {k \in DOMAIN parser.choices : parser.choices[k].name = parser_name}
        Merge(sub) ==
            IF sub.kind = "SystemExit" THEN sub
            ELSE [st EXCEPT !.positional = FALSE,
                            !.namespace = sub.namespace @@ (<<"c", "o", "m", "m", "a", "n", "d">> :> parser_name) @@ @,
                            !.unrecognized = sub.extras]
    IN  IF parser.choices # <<>>
        THEN IF Found = {} THEN SystemExit(2)
             ELSE Merge(parse_known_args(parser.choices[CHOOSE k \in Found : TRUE].parser,
                                         Tail(arg_strings)))
        ELSE [st EXCEPT !.positional = FALSE,
                        !.namespace = (CHOOSE a \in {parser.args[k] : k \in DOMAIN parser.args} :
                                          a.name[1] # "-").name
                                      :> (IF arg_strings[1] = <<"-", "-">> /\ Len(arg_strings) > 1
                                          THEN arg_strings[2] ELSE arg_strings[1]) @@ @]

\* consume_optional: an unknown option is an extra, help exits with 0, an
\* option with a value takes the next argument string if it is positional
consume_optional(parser, arg_strings, pattern, start_index, st) ==
    LET option_string == pattern[start_index].option_string
        action == CHOOSE a \in OptionalArgs(parser) : a.name = option_string
    IN  IF option_string = <<>>
        THEN [st EXCEPT !.extras = Append(@, arg_strings[start_index]), !.stop = start_index + 1]
        ELSE IF option_string \in {<<"-", "h">>, <<"-", "-", "h", "e", "l", "p">>} THEN SystemExit(0)
        ELSE IF start_index + 1 <= Len(pattern) /\ pattern[start_index + 1].c = "A"
        THEN [st EXCEPT !.namespace = action.dest :> arg_strings[start_index + 1] @@ @,
                        !.stop = start_index + 2]
        ELSE SystemExit(2)

\* parse_known_args: positionals and optionals are consumed alternately up
\* to the last option string, then the positionals after it; what is left
\* is an extra, and a required argument that was not seen is an error
consume(parser, arg_strings, pattern, start_index, st) ==
    LET option_string_indices == {k \in DOMAIN pattern : pattern[k].c = "O"}
        following == {k \in option_string_indices : k >= start_index}
        next_option_string_index == CHOOSE k \in following : \A j \in following : k <= j
        Continue(after, index) ==
            IF after.kind = "SystemExit" THEN after
            ELSE consume(parser, arg_strings, pattern, index, after)
        Positionals(arg_count) ==
            Continue(take_positional(parser,
                         SubSeq(arg_strings, start_index, start_index + arg_count - 1), st),
                     start_index + arg_count)
        Option(after) ==
            IF after.kind = "SystemExit" THEN after
            ELSE consume(parser, arg_strings, pattern, after.stop, after)
        Optionals(arg_count) ==
            IF arg_count > 0 THEN Positionals(arg_count)
            ELSE Option(consume_optional(parser, arg_strings, pattern, next_option_string_index,
                     [st EXCEPT !.extras = @ \o SubSeq(arg_strings, start_index,
                                                       next_option_string_index - 1)]))
        Required(after) ==
            IF after.kind = "SystemExit" THEN after
            ELSE IF after.positional /\ (parser.choices # <<>> => parser.required)
            THEN SystemExit(2)
            ELSE after
        Rest(after, stop_index) ==
            IF after.kind = "SystemExit" THEN after
            ELSE Required([after EXCEPT !.extras = @ \o SubSeq(arg_strings, stop_index,
                                                               Len(arg_strings))])
        Last(arg_count) ==
            IF arg_count > 0
            THEN Rest(take_positional(parser,
                          SubSeq(arg_strings, start_index, start_index + arg_count - 1), st),
                      start_index + arg_count)
            ELSE Rest(st, start_index)
    IN  IF following # {}
        THEN Optionals(IF start_index # next_option_string_index
                       THEN match_partial(parser, pattern, start_index, st) ELSE 0)
        ELSE Last(match_partial(parser, pattern, start_index, st))

parse_known_args(parser, arg_strings) ==
    LET Run(pattern) ==
            IF \E k \in DOMAIN pattern : pattern[k].c = "error" THEN SystemExit(2)
            ELSE consume(parser, arg_strings, pattern, 1,
                         [kind |-> "ok", namespace |-> Defaults(parser), extras |-> <<>>,
                          unrecognized |-> <<>>, stop |-> 1,
                          positional |-> (parser.choices # <<>>
                                          \/ \E k \in DOMAIN parser.args :
                                                parser.args[k].name[1] # "-")])
        Finish(after) ==
            IF after.kind = "SystemExit" THEN after
            ELSE [kind |-> "ok", namespace |-> after.namespace,
                  extras |-> after.extras \o after.unrecognized]
    IN  Finish(Run(arg_strings_pattern(parser, arg_strings)))

\* CommandLine.parse: parse_args exits with 2 on unrecognized arguments and
\* returns the namespace otherwise
CommandLine_parse(self, args) ==
    LET Check(known) ==
            IF known.kind = "SystemExit" THEN known
            ELSE IF known.extras # <<>> THEN SystemExit(2)
            ELSE [kind |-> "ok", namespace |-> known.namespace]
    IN  Check(parse_known_args(self, args))

(***************************************************************************)
(* Command lines: every list of at most MaxArgs arguments over registered  *)
(* command names, other words, the options of the parsers, an abbreviated  *)
(* option, an unknown option and "--".                                     *)
(***************************************************************************)
ArgWords ==
    {<<"s", "t", "a", "r", "t", "_", "s", "e", "r", "v", "e", "r">>, <<"s", "t", "o", "p", "_", "s", "e", "r", "v", "e", "r">>, <<"r", "u", "n", "_", "s", "c", "r", "i", "p", "t">>, <<"h", "e", "l", "p">>, <<"x">>,
     <<"-", "-", "h", "e", "l", "p">>, <<"-", "h">>, <<"-", "-", "h">>, <<"-", "-", "h", "o", "s", "t">>, <<"-", "-", "p", "o", "r", "t">>, <<"-", "x">>, <<"-", "-">>}

ArgLists == UNION {[1..n -> ArgWords] : n \in 0..MaxArgs}

InitCli ==
    /\ text = <<>> /\ parsed = Pending /\ formatted = Pending /\ reparsed = Pending
    /\ wire = Pending /\ decoded = Pending /\ built = Pending /\ hdrOut = Pending
    /\ host = NoCall /\ hdrIn = NoCall /\ raw = <<>> /\ lexed = Pending
    /\ argv \in ArgLists /\ cli = Pending /\ ServerIdle /\ ConnectionIdle

\* CommandLine(CLITask.commands()).parse(argv)
Parse ==
    /\ cli = Pending
    /\ cli' = CommandLine_parse(CommandLine_init(CLITask_commands), argv)
    /\ UNCHANGED <<text, parsed, wire, decoded, formatted, reparsed, host, built, hdrIn, hdrOut,
                   raw, argv, lexed, server, events,
                 arrived, callback, responses, waits>>

NextCli == Parse
SpecCli == InitCli /\ [][NextCli]_vars

\* the names of the registered CLI tasks
RegisteredNames == {CLITask_commands[k].name : k \in DOMAIN CLITask_commands}

\* C17 - command validation: parse exits with status 2 for an empty argument
\* list and for a first argument that is a word but not the name of a
\* registered task, exits with status 0 when the first argument is --help,
\* and returns a namespace only when the first argument is a registered
\* name, which is then the namespace's command
C17_CommandValidation ==
    Done(cli) =>
        /\ argv = <<>> => cli = SystemExit(2)
        /\ (argv # <<>> /\ argv[1][1] # "-" /\ argv[1] \notin RegisteredNames) =>
              cli = SystemExit(2)
        /\ (argv # <<>> /\ argv[1] = <<"-", "-", "h", "e", "l", "p">>) => cli = SystemExit(0)
        /\ cli.kind = "ok" =>
              /\ argv # <<>> /\ argv[1] \in RegisteredNames
              /\ cli.namespace[<<"c", "o", "m", "m", "a", "n", "d">>] = argv[1]

C17_Witness ==
    /\ Len(argv) = 2 /\ argv[1] = <<"h", "e", "l", "p">> /\ argv[2] = <<"-", "-", "h", "e", "l", "p">>
    /\ cli = SystemExit(2)

(***************************************************************************)
(* The lexer alone: SMLParser(text) for every text of at most MaxText      *)
(* characters over a word character, the terminator, an operator, both     *)
(* quote characters, the blank, LF and CR.                                 *)
(***************************************************************************)
MaxText == 4        \* most characters of a lexed text

LexChars == {"a", ".", "<", "\"", "'", " ", "\n", "\r"}

LexTexts == UNION {[1..n -> LexChars] : n \in 0..MaxText}

InitLex ==
    /\ text \in LexTexts /\ lexed = Pending
    /\ parsed = Pending /\ formatted = Pending /\ reparsed = Pending
    /\ wire = Pending /\ decoded = Pending /\ built = Pending /\ hdrOut = Pending
    /\ host = NoCall /\ hdrIn = NoCall /\ raw = <<>>
    /\ argv = <<>> /\ cli = Pending /\ ServerIdle /\ ConnectionIdle

\* SMLParser(text)
Lex ==
    /\ lexed = Pending
    /\ lexed' = LET Made(parser) == [kind |-> "ok", tokens |-> parser.tokens,
                                     source_lines |-> parser.source_lines]
                IN  Made(SMLParser(text))
    /\ UNCHANGED <<text, parsed, wire, decoded, formatted, reparsed, host, built, hdrIn, hdrOut,
                   raw, argv, cli, server, events,
                 arrived, callback, responses, waits>>

NextLex == Lex
SpecLex == InitLex /\ [][NextLex]_vars

\* the index in the source of the first character of token k: the first
\* character that is not whitespace after the end of token k - 1
RECURSIVE TokenStart(_, _, _)
TokenStart(source, tokens, k) ==
    LET from == IF k = 1 THEN 1
                ELSE TokenStart(source, tokens, k - 1) + Len(tokens[k - 1].value)
        Skip(first) == CHOOSE i \in first..(Len(source) + 1) :
                          /\ i <= Len(source) => source[i] \notin whitespaces
                          /\ \A j \in first..(i - 1) : source[j] \in whitespaces
    IN  Skip(from)

\* 1-based line of the character at index i: LF advances the line
LineAt(source, i) == 1 + Cardinality({j \in 1..(i - 1) : source[j] = "\n"})

\* 1-based column of the character at index i: the character after LF or
\* CR, and the first character of the source, are in column 1
ColumnAt(source, i) ==
    LET breaks == {j \in 1..(i - 1) : source[j] \in {"\n", "\r"}}
        last == IF breaks = {} THEN 0 ELSE CHOOSE j \in breaks : \A b \in breaks : b <= j
    IN  i - last

\* C18 - token positions: every token carries the 1-based line and the
\* 1-based column of its first character, the first character of every line
\* being in column 1
C18_TokenPositions ==
    Done(lexed) =>
        \A k \in DOMAIN lexed.tokens :
            /\ lexed.tokens[k].line = LineAt(text, TokenStart(text, lexed.tokens, k))
            /\ lexed.tokens[k].col = ColumnAt(text, TokenStart(text, lexed.tokens, k))

RECURSIVE TokenChars(_)
TokenChars(tokens) ==
    IF tokens = <<>> THEN <<>> ELSE Head(tokens).value \o TokenChars(Tail(tokens))

NonWhitespace(chars) == SelectSeq(chars, LAMBDA c : c \notin whitespaces)

\* C19 - lexer completeness: the token values, in order, hold every
\* character of the source that is not whitespace; a text that ends in a
\* word character or in the terminator has that character at the end of its
\* last token
C19_LexerCompleteness ==
    Done(lexed) =>
        /\ NonWhitespace(TokenChars(lexed.tokens)) = NonWhitespace(text)
        /\ (text # <<>> /\ text[Len(text)] \in {"a", "."}
               /\ \A i \in DOMAIN text : text[i] \notin literal_delimiter) =>
              /\ lexed.tokens # <<>>
              /\ LET last == lexed.tokens[Len(lexed.tokens)].value
                 IN  last[Len(last)] = text[Len(text)]

\* a literal: a quote character, then characters other than that quote,
\* then the same quote character
IsLiteral(value) ==
    /\ Len(value) >= 2
    /\ value[1] \in literal_delimiter
    /\ value[Len(value)] = value[1]
    /\ \A j \in 2..(Len(value) - 1) : value[j] # value[1]

\* C20 - literal tokenisation: a token that holds a quote character is a
\* literal of its own, from an opening quote to the next occurrence of the
\* same quote with both quotes kept; and only a literal holds whitespace,
\* or an operator character next to other characters
C20_LiteralTokens ==
    Done(lexed) =>
        \A k \in DOMAIN lexed.tokens :
            LET value == lexed.tokens[k].value
            IN  /\ (\E j \in DOMAIN value : value[j] \in literal_delimiter) => IsLiteral(value)
                /\ (\E j \in DOMAIN value : value[j] \in whitespaces) => IsLiteral(value)
                /\ (Len(value) > 1 /\ \E j \in DOMAIN value : value[j] \in operators) =>
                      IsLiteral(value)

\* the number of tokens with the given value
TokenCount(tokens, value) == Cardinality({k \in DOMAIN tokens : tokens[k].value = value})

\* C21 - closing bracket is demanded: a list whose body is ended by '.'
\* instead of '>' is rejected with the parser's error, and every message
\* from_sml accepts has as many '>' tokens as '<' tokens
C21_ClosingBracket ==
    Done(parsed) =>
        /\ text \in DotClosedTexts => parsed.kind = "SMLParseError"
        /\ parsed.kind = "ok" =>
              TokenCount(SMLParser(text).tokens, <<"<">>) =
                  TokenCount(SMLParser(text).tokens, <<">">>)

\* C22 - list count rule: a list with an explicit count N parses when N is
\* 0 or the number of children, and is rejected with the count-mismatch
\* error carrying the count token when N > 0 differs, also for an inner
\* list; a body that fails before its closing token is consumed fails with
\* its own error, the count not having been checked yet
C22_ListCountRule ==
    Done(parsed) =>
        /\ \A l \in CountedLists :
              text = CountedListText(l) =>
                  IF l.count = 0 \/ l.count = Len(l.children)
                  THEN /\ parsed.kind = "ok"
                       /\ Len(parsed.val.data.v) = Len(l.children)
                  ELSE /\ parsed.kind = "SMLParseError" /\ parsed.msg = "length mismatch"
                       /\ parsed.token = SMLParser(text).tokens[5]
                       /\ parsed.token.value = str(l.count)
        /\ text = NestedMiscountText =>
              /\ parsed.kind = "SMLParseError" /\ parsed.msg = "length mismatch"
              /\ parsed.token = SMLParser(text).tokens[7]
        /\ text \in UnclosedMiscountTexts =>
              parsed.kind # "ok" /\ parsed.msg # "length mismatch"

C22_Witness ==
    /\ \E l \in CountedLists :
          /\ text = CountedListText(l) /\ l.count = 2 /\ Len(l.children) = 1
    /\ parsed.kind = "SMLParseError" /\ parsed.msg = "length mismatch"

\* C23 - empty leaf: for every leaf class `< TAG >` parses to an item of
\* that class with an empty payload, the item encodes to its format byte
\* with one length byte of 0 and nothing else, and renders as `< TAG >`
C23_EmptyLeaf ==
    \A cls \in ItemClasses \ {"L"} :
        text = EmptyLeafText(cls) =>
            /\ Done(parsed) =>
                  /\ parsed.kind = "ok"
                  /\ parsed.val.data.t = cls /\ parsed.val.data.v = <<>>
                  /\ to_sml(parsed.val.data, 0) =
                        Chars(<<"<", " ">> \o _sml_type(cls) \o <<" ", ">">>)
            /\ Done(wire) => wire.kind = "ok" /\ wire.bytes = <<4 * _hsms_type(cls) + 1, 0>>

\* the encodings of the items of ChildItems, byte by byte
ChildBytes ==
    << <<165, 1, 42>>, <<105, 2, 255, 254>>, <<69, 2, 111, 107>>, <<33, 0>>, <<37, 1, 1>>,
       <<1, 0>>, <<1, 2, 169, 2, 1, 2, 1, 0>> >>

RECURSIVE ChoiceBytes(_)
ChoiceBytes(choice) ==
    IF choice = <<>> THEN <<>> ELSE ChildBytes[Head(choice)] \o ChoiceBytes(Tail(choice))

\* the list built is the list of the chosen items of ChildItems
BuiltFrom(choice) ==
    /\ host.cls = "L" /\ built.kind = "ok" /\ Len(built.val.v) = Len(choice)
    /\ \A i \in 1..Len(choice) : SameItem(built.val.v[i], ChildItems[choice[i]])

\* C24 - list codec structure: a list encodes to a header whose length is
\* the number of children, followed by the children's encodings in order;
\* decoding those bytes gives the same children and leaves nothing; an
\* accepted list buffer of declared length k gives k children, read one
\* after the other, and leaves the bytes after the last child's encoding
C24_ListCodecStructure ==
    /\ \A choice \in ChildChoices :
          BuiltFrom(choice) =>
              /\ Done(wire) =>
                    /\ wire.kind = "ok"
                    /\ wire.bytes = <<1, Len(choice)>> \o ChoiceBytes(choice)
              /\ Done(decoded) =>
                    /\ decoded.kind = "ok" /\ decoded.data = <<>>
                    /\ Len(decoded.val.v) = Len(choice)
                    /\ SameItem(decoded.val, built.val)
    /\ \A r \in ListRaws :
          (hdrIn = [cls |-> "raw"] /\ raw = r.bytes /\ Done(decoded)) =>
              /\ decoded.kind = "ok"
              /\ decoded.val.t = "L" /\ Len(decoded.val.v) = r.k
              /\ decoded.data = r.rest
    /\ (hdrIn = [cls |-> "raw"] /\ raw = OddChildRaw /\ Done(decoded) /\ decoded.kind = "ok") =>
          decoded.val.t = "L" /\ Len(decoded.val.v) = 1

C24_Witness ==
    /\ BuiltFrom(<<7, 3>>) /\ Done(decoded)
    /\ wire.bytes = <<1, 2, 1, 2, 169, 2, 1, 2, 1, 0, 69, 2, 111, 107>>

\* C25 - stream/function ranges: every message from_sml returns has a
\* stream number in 0..127 and a function number in 0..255
C25_StreamFunctionRanges ==
    (Done(parsed) /\ parsed.kind = "ok") =>
        /\ parsed.val.stream \in 0..127
        /\ parsed.val.function \in 0..255

(***************************************************************************)
(* The command server: command_server.py and server_tasks.py.              *)
(* A client connects, sends messages (command, data) and reads one reply   *)
(* per message.  The client's choices are the inputs: which command it     *)
(* sends next, whether it hangs up instead, and whether a script it sent   *)
(* runs or raises.                                                         *)
(***************************************************************************)
\* most connections one run accepts
MaxConns == 2
\* most messages one run receives, over all its connections
MaxMsgs == 3

\* ServerTask.__init_subclass__: the commands of the registered task classes
ServerTask_classes == {"terminate", "close", "ping", "script"}
\* the commands a client sends: the registered ones and one that no class registers
ClientCommands == ServerTask_classes \cup {"status"}
\* the ways the script of a "script" message ends in ScriptRunner.run_string
ScriptOutcomes == {"ok", "raise"}

\* a result whose flags are exchanged: "close" ends the server, "terminate" the connection
ServerTaskResult_exchanged(data, close, terminate) ==
    [kind |-> "ok", data |-> data, close |-> terminate, terminate |-> close]

ServerTaskResult(data, close, terminate) ==
    [kind |-> "ok", data |-> data, close |-> close, terminate |-> terminate]

\* ServerTask.task_from_message: the class registered for the command
task_from_message(message) ==
    IF message \notin ServerTask_classes
    THEN [kind |-> "NotImplementedError"]
    ELSE [kind |-> "ok", command |-> message]

\* task.run() of TerminateServerTask, CloseServerTask, PingServerTask, RunScriptServerTask
Task_run(command, outcome) ==
    CASE command = "terminate" -> ServerTaskResult("{}", FALSE, TRUE)
      [] command = "close" -> ServerTaskResult("{}", TRUE, FALSE)
      [] command = "ping" -> ServerTaskResult("pong", FALSE, FALSE)
      [] OTHER -> IF outcome = "raise"
                  THEN [kind |-> "Exception"]
                  ELSE ServerTaskResult("result", FALSE, FALSE)

Event(e, conn, arg) == [e |-> e, conn |-> conn, arg |-> arg]
CountEvents(log, e) == Cardinality({i \in 1..Len(log) : log[i].e = e})

\* CommandServer.start: the listener is open and the accept loop begins
InitServer ==
    /\ text = <<>> /\ parsed = Pending /\ wire = Pending /\ decoded = Pending
    /\ formatted = Pending /\ reparsed = Pending
    /\ host = NoCall /\ built = Pending
    /\ hdrIn = Pending /\ hdrOut = Pending /\ raw = <<>>
    /\ argv = <<>> /\ cli = Pending /\ lexed = Pending
    /\ server = [pc |-> "accept", conn |-> 0, message |-> "None"]
    /\ events = <<>>
    /\ ConnectionIdle

ServerUnchanged ==
    UNCHANGED <<text, parsed, wire, decoded, formatted, reparsed, host, built, hdrIn, hdrOut,
                raw, argv, cli, lexed, arrived, callback, responses, waits>>

\* CommandServer._handle_connections: listener.accept() hands over the next connection
Accept ==
    /\ server # Pending /\ server.pc = "accept"
    /\ CountEvents(events, "accept") < MaxConns
    /\ server' = [pc |-> "recv", conn |-> server.conn + 1, message |-> "None"]
    /\ events' = Append(events, Event("accept", server.conn + 1, "None"))
    /\ ServerUnchanged

\* CommandServer._handle_connection: connection.recv() returns the client's next
\* message, or raises EOFError when the client hung up
Recv ==
    /\ server # Pending /\ server.pc = "recv"
    /\ CountEvents(events, "recv") < MaxMsgs
    /\ \/ \E command \in ClientCommands :
             /\ server' = [server EXCEPT !.pc = "task", !.message = command]
             /\ events' = Append(events, Event("recv", server.conn, command))
       \/ /\ server' = [server EXCEPT !.pc = "raised"]
          /\ events' = events \o <<Event("close", server.conn, "None"),
                                   Event("raise", server.conn, "EOFError")>>
    /\ ServerUnchanged

\* a handler that gives the connection up after the error reply
ExceptClause_closing(conn) ==
    [pc |-> "accept", out |-> <<Event("send", conn, "error"), Event("close", conn, "None")>>]

\* the except clause of CommandServer._handle_connection: error reply, then continue
ExceptClause(conn) ==
    [pc |-> "recv", out |-> <<Event("send", conn, "error")>>]

\* the rest of one turn of the loop of CommandServer._handle_connection
Handle ==
    /\ server # Pending /\ server.pc = "task"
    /\ \E outcome \in ScriptOutcomes :
          /\ server.message # "script" => outcome = "ok"
          /\ LET conn == server.conn
                 Step(to) ==
                     /\ server' = [server EXCEPT !.pc = to.pc]
                     /\ events' = events \o to.out
                 Then(result) ==
                     IF result.kind # "ok"
                     THEN Step(ExceptClause(conn))
                     ELSE IF result.terminate
                     THEN Step([pc |-> "returned",
                                out |-> <<Event("send", conn, result.data),
                                          Event("close", conn, "None"),
                                          Event("return", conn, "True")>>])
                     ELSE IF result.close
                     THEN Step([pc |-> "accept",
                                out |-> <<Event("send", conn, result.data),
                                          Event("close", conn, "None")>>])
                     ELSE Step([pc |-> "recv", out |-> <<Event("send", conn, result.data)>>])
                 Run(task) ==
                     IF task.kind # "ok"
                     THEN \* raised before the try statement: out of both loops, and the
                          \* with statement of _handle_connections closes the connection
                          Step([pc |-> "raised",
                                out |-> <<Event("close", conn, "None"),
                                          Event("raise", conn, task.kind)>>])
                     ELSE Then(Task_run(task.command, outcome))
             IN Run(task_from_message(server.message))
    /\ ServerUnchanged

NextServer == Accept \/ Recv \/ Handle

SpecServer == InitServer /\ [][NextServer]_vars

\* events[i] is a message the server has received and dealt with
Handled(i) == i < Len(events) /\ events[i].e = "recv"
\* what the server did after events[i]
EventsAfter(i) == SubSeq(events, i + 1, Len(events))
\* the client of connection conn hung up: recv raised EOFError
HungUp(rest, conn) ==
    rest = <<Event("close", conn, "None"), Event("raise", conn, "EOFError")>>

\* C26: after a "close" message the server replies, closes that connection only
\* and is back in accept (the next thing it does is accept the following
\* connection); after a "terminate" message it replies, closes the connection
\* and returns from the accept loop; after a "ping" or "script" message it
\* replies and is receiving on the same connection again.
C26_CloseVersusTerminate ==
    server # Pending =>
        \A i \in 1..Len(events) :
            Handled(i) /\ events[i].arg \in ServerTask_classes =>
                LET conn == events[i].conn
                    command == events[i].arg
                    rest == EventsAfter(i)
                IN  /\ rest[1].e = "send" /\ rest[1].conn = conn
                    /\ command = "close" =>
                          /\ rest[1].arg = "{}"
                          /\ Len(rest) >= 2 /\ rest[2] = Event("close", conn, "None")
                          /\ Len(rest) = 2 => server.pc = "accept"
                          /\ Len(rest) > 2 => rest[3] = Event("accept", conn + 1, "None")
                    /\ command = "terminate" =>
                          /\ rest = <<Event("send", conn, "{}"), Event("close", conn, "None"),
                                      Event("return", conn, "True")>>
                          /\ server.pc = "returned"
                    /\ command \in {"ping", "script"} =>
                          /\ Len(rest) = 1 => server.pc = "recv" /\ server.conn = conn
                          /\ Len(rest) > 1 =>
                                \/ rest[2].e = "recv" /\ rest[2].conn = conn
                                \/ HungUp(SubSeq(rest, 2, Len(rest)), conn)

\* a ping, then a close, a second connection and a terminate on it
C26_Witness ==
    /\ server # Pending /\ server.pc = "returned"
    /\ events = <<Event("accept", 1, "None"),
                  Event("recv", 1, "ping"), Event("send", 1, "pong"),
                  Event("recv", 1, "close"), Event("send", 1, "{}"), Event("close", 1, "None"),
                  Event("accept", 2, "None"),
                  Event("recv", 2, "terminate"), Event("send", 2, "{}"),
                  Event("close", 2, "None"), Event("return", 2, "True")>>

\* C27: when the task of a message raises, the server sends an error reply on
\* that connection and is receiving on the same connection again: nothing is
\* closed and the server neither returns nor raises because of it.
C27_TaskFailure ==
    server # Pending =>
        \A i \in 1..Len(events) :
            (i > 1 /\ events[i] = Event("send", events[i].conn, "error")) =>
                LET conn == events[i].conn
                    rest == EventsAfter(i)
                IN  /\ events[i - 1] = Event("recv", conn, "script")
                    /\ rest = <<>> => server.pc = "recv" /\ server.conn = conn
                    /\ rest # <<>> =>
                          \/ rest[1].e = "recv" /\ rest[1].conn = conn
                          \/ HungUp(rest, conn)

\* a script that raises, answered by an error reply, and then a ping answered
\* on the same connection
C27_Witness ==
    /\ server # Pending /\ server.pc = "recv" /\ server.conn = 1
    /\ events = <<Event("accept", 1, "None"),
                  Event("recv", 1, "script"), Event("send", 1, "error"),
                  Event("recv", 1, "ping"), Event("send", 1, "pong")>>

\* C29: every message the server has received and dealt with, one with an
\* unknown command included, is followed by exactly one reply on its
\* connection before anything else happens there, and an unknown command does
\* not make the server leave its accept loop.
C29_RequestResponse ==
    server # Pending =>
        \A i \in 1..Len(events) :
            Handled(i) =>
                LET conn == events[i].conn
                    rest == EventsAfter(i)
                IN  /\ rest[1].e = "send" /\ rest[1].conn = conn
                    /\ Len(rest) > 1 => rest[2].e # "send"
                    /\ events[i].arg \notin ServerTask_classes => server.pc # "raised"

(***************************************************************************)
(* The response queue of an HSMS connection: secsgem_package_0_1.py.       *)
(* The secsgem library's receiver thread calls                             *)
(* on_connection_packet_received for each packet; script threads call      *)
(* wait_for_separate_req, wait_for_packet_reply and wait_for_function.     *)
(* Every access to _responses is made holding _response_lock, so a block   *)
(* under the lock is one step; what the callback does before it takes the  *)
(* lock is a step of its own.  time.time() is an input: a wait call may    *)
(* find its time up at any turn of its loop.                               *)
(***************************************************************************)
\* most packets the connection receives in one run
MaxPackets == 3
\* the threads that call wait_for_*
Threads == {"script", "worker"}

HsmsHeader(sType, system, stream, function) ==
    [sType |-> sType, system |-> system, stream |-> stream, function |-> function]
\* the packets of the peer: Separate.req; S1F2 with < L >, the reply to the
\* request with system id 1; S1F1, a message without a body
ReceivedPackets ==
    { [header |-> HsmsHeader(9, 1, 0, 0), data |-> <<>>],
      [header |-> HsmsHeader(0, 1, 1, 2), data |-> <<1, 0>>],
      [header |-> HsmsHeader(0, 2, 1, 1), data |-> <<>>] }
\* wait_for_separate_req(), wait_for_packet_reply(packet with system id 1),
\* wait_for_function(1, 2)
Criteria ==
    { [by |-> "s_type", a |-> 9, b |-> 0],
      [by |-> "system_id", a |-> 1, b |-> 0],
      [by |-> "function", a |-> 1, b |-> 2] }

CallbackIdle == [pc |-> "idle", packet |-> [obj |-> "None", id |-> 0, hdr |-> HsmsHeader(0, 0, 0, 0)]]
WaitIdle == [pc |-> "idle", criterion |-> [by |-> "None", a |-> 0, b |-> 0], result |-> 0,
             exc |-> "None"]

\* ScriptHSMSConnection01.__init__: an empty list and its lock
InitConnection ==
    /\ text = <<>> /\ parsed = Pending /\ wire = Pending /\ decoded = Pending
    /\ formatted = Pending /\ reparsed = Pending
    /\ host = NoCall /\ built = Pending
    /\ hdrIn = Pending /\ hdrOut = Pending /\ raw = <<>>
    /\ argv = <<>> /\ cli = Pending /\ lexed = Pending /\ ServerIdle
    /\ arrived = <<>> /\ callback = CallbackIdle /\ responses = <<>>
    /\ waits = [w \in Threads |-> WaitIdle]

ConnectionUnchanged ==
    UNCHANGED <<text, parsed, wire, decoded, formatted, reparsed, host, built, hdrIn, hdrOut,
                raw, argv, cli, lexed, server, events>>

\* on_connection_packet_received: a control packet is kept as the library's
\* HsmsPacket, a data message is replaced by SECSFunction.from_hsms_packet of
\* it (which raises when SECSData.decode does: the callback ends there);
\* then, holding the lock, the object is appended.  id is the object's identity.
on_connection_packet_received ==
    \/ /\ callback.pc = "idle" /\ Len(arrived) < MaxPackets
       /\ \E packet \in ReceivedPackets :
             LET id == Len(arrived) + 1
                 Queued(obj) == [pc |-> "append",
                                 packet |-> [obj |-> obj, id |-> id, hdr |-> packet.header]]
             IN  /\ arrived' = Append(arrived, packet)
                 /\ callback' = IF packet.header.sType # 0 THEN Queued("HsmsPacket")
                                ELSE IF decode(packet.data).kind # "ok" THEN callback
                                ELSE Queued("SECSFunction")
       /\ UNCHANGED <<responses, waits>>
       /\ ConnectionUnchanged
    \/ /\ callback.pc = "append"
       /\ responses' = Append(responses, callback.packet)
       /\ callback' = CallbackIdle
       /\ UNCHANGED <<arrived, waits>>
       /\ ConnectionUnchanged

\* the _condition closures of _wait_for_system_id, _wait_for_s_type and
\* _wait_for_function: next() over the list from its head.  The first two read
\* packet.header, which an HsmsPacket has and a SECSFunction has not; the
\* third reads packet.hsms_header, which only a SECSFunction has.
RECURSIVE _condition(_, _, _)
_condition(criterion, queue, i) ==
    IF i > Len(queue) THEN [kind |-> "None", index |-> 0]
    ELSE LET packet == queue[i]
             attribute == IF criterion.by = "function" THEN "SECSFunction" ELSE "HsmsPacket"
             found == CASE criterion.by = "system_id" -> packet.hdr.system = criterion.a
                        [] criterion.by = "s_type" -> packet.hdr.sType = criterion.a
                        [] OTHER -> /\ packet.hdr.stream = criterion.a
                                    /\ packet.hdr.function = criterion.b
         IN  IF packet.obj # attribute THEN [kind |-> "AttributeError", index |-> i]
             ELSE IF found THEN [kind |-> "ok", index |-> i]
             ELSE _condition(criterion, queue, i + 1)

\* a removal that leaves the list as it was
list_remove_kept(queue, packet) == queue

\* self._responses.remove(result): the first element equal to the object goes;
\* neither class defines __eq__, so equal means the same object
RECURSIVE list_remove(_, _)
list_remove(queue, packet) ==
    IF queue = <<>> THEN queue
    ELSE IF Head(queue) = packet THEN Tail(queue)
    ELSE <<Head(queue)>> \o list_remove(Tail(queue), packet)

\* one wait_for_* call of a thread: the call, a turn of the loop of
\* _wait_for_condition under the lock, the sleep, and the time being up
_wait_for_condition(w) ==
    \/ /\ waits[w].pc = "idle"
       /\ \E criterion \in Criteria :
             waits' = [waits EXCEPT ![w] = [WaitIdle EXCEPT !.pc = "loop",
                                                            !.criterion = criterion]]
       /\ UNCHANGED <<arrived, callback, responses>>
       /\ ConnectionUnchanged
    \/ /\ waits[w].pc = "loop"
       /\ LET Then(result) ==
                  IF result.kind = "AttributeError"
                  THEN /\ waits' = [waits EXCEPT ![w].pc = "raised", ![w].exc = result.kind]
                       /\ UNCHANGED responses
                  ELSE IF result.kind = "None"
                  THEN /\ waits' = [waits EXCEPT ![w].pc = "sleep"]
                       /\ UNCHANGED responses
                  ELSE /\ waits' = [waits EXCEPT ![w].pc = "returned",
                                                 ![w].result = responses[result.index].id]
                       /\ responses' = list_remove(responses, responses[result.index])
          IN  Then(_condition(waits[w].criterion, responses, 1))
       /\ UNCHANGED <<arrived, callback>>
       /\ ConnectionUnchanged
    \/ /\ waits[w].pc = "sleep"
       /\ waits' = [waits EXCEPT ![w].pc = "loop"]
       /\ UNCHANGED <<arrived, callback, responses>>
       /\ ConnectionUnchanged
    \/ /\ waits[w].pc = "loop"
       /\ waits' = [waits EXCEPT ![w].pc = "raised", ![w].exc = "Exception"]
       /\ UNCHANGED <<arrived, callback, responses>>
       /\ ConnectionUnchanged

NextConnection == on_connection_packet_received \/ \E w \in Threads : _wait_for_condition(w)

SpecConnection == InitConnection /\ [][NextConnection]_vars

\* the packet meets the criterion of the wait call, read from its HSMS header
\* whether it is queued as a control packet or as a decoded data message
Matches(packet, criterion) ==
    CASE criterion.by = "system_id" -> packet.hdr.system = criterion.a
      [] criterion.by = "s_type" -> packet.hdr.sType = criterion.a
      [] OTHER -> /\ packet.hdr.sType = 0
                  /\ packet.hdr.stream = criterion.a
                  /\ packet.hdr.function = criterion.b
\* the position of the oldest queued packet that meets the criterion, 0 for none
OldestMatch(queue, criterion) ==
    LET hits == {i \in 1..Len(queue) : Matches(queue[i], criterion)}
    IN  IF hits = {} THEN 0 ELSE CHOOSE i \in hits : \A j \in hits : i <= j

\* C28: a wait call that looks at the queue before its time is up returns the
\* oldest queued packet that meets its criterion, whatever control packets and
\* data messages are queued with it, and goes on waiting only when no queued
\* packet meets the criterion.
C28_MixedResponseQueue ==
    [][\A w \in Threads :
          (/\ waits[w].pc = "loop"
           /\ waits'[w].pc # "loop"
           /\ waits'[w].exc # "Exception") =>
              LET i == OldestMatch(responses, waits[w].criterion)
              IN  IF i = 0 THEN waits'[w].pc = "sleep"
                  ELSE /\ waits'[w].pc = "returned"
                       /\ waits'[w].result = responses[i].id]_vars

\* C30: whatever the interleaving of the callback and the wait calls, no
\* packet is returned by two wait calls, no returned packet is still queued,
\* the queue is in arrival order, and a step changes the queue only by
\* appending the callback's packet at its end or by taking out the one packet
\* that a wait call returns in that step: the others stay as they were.
C30_AtMostOnceDelivery ==
    [][LET returned == {waits'[w].result : w \in {t \in Threads : waits'[t].pc = "returned"}}
           Without(i) == [j \in 1..(Len(responses) - 1) |->
                             IF j < i THEN responses[j] ELSE responses[j + 1]]
       IN  /\ \A w1, w2 \in Threads :
                 (w1 # w2 /\ waits'[w1].pc = "returned" /\ waits'[w2].pc = "returned") =>
                     waits'[w1].result # waits'[w2].result
           /\ \A i \in 1..Len(responses') : responses'[i].id \notin returned
           /\ \A i, j \in 1..Len(responses') : i < j => responses'[i].id < responses'[j].id
           /\ \/ responses' = responses
              \/ /\ callback.pc = "append"
                 /\ responses' = Append(responses, callback.packet)
              \/ \E w \in Threads : \E i \in 1..Len(responses) :
                    /\ waits[w].pc = "loop" /\ waits'[w].pc = "returned"
                    /\ waits'[w].result = responses[i].id
                    /\ responses' = Without(i)]_vars

\* both threads have returned, one the first and one the second packet
\* received, and the third packet is the one still queued
C30_Witness ==
    /\ Len(arrived) = 3
    /\ waits # <<>>
    /\ waits["script"].pc = "returned" /\ waits["worker"].pc = "returned"
    /\ {waits["script"].result, waits["worker"].result} = {1, 2}
    /\ Len(responses) = 1 /\ responses[1].id = 3

====
